---------------------------- MODULE Spec2Model ----------------------------
(***************************************************************************)
(* Credit ledger and subscription-entitlement handlers of the mail         *)
(* scanning service (sanskarpar/letter).                                   *)
(*                                                                         *)
(* The Firestore document users/{uid} is the shared store.  Every handler  *)
(* is a process that runs from one await to the next: a step of the model  *)
(* is one store (or Stripe) round trip.  Time is counted in days.          *)
(***************************************************************************)
EXTENDS Integers, Sequences, FiniteSets, TLC

VARIABLES
  now,            \* the wall clock, in days
  user,           \* the document users/u1
  userVer,        \* number of committed writes to users/u1 (its update time)
  stripe,         \* Stripe: the price of the customer's subscription, and the
                  \* customer's metadata.firebaseUserId
  letterRequests, \* the collection letterRequests
  procs,          \* the handlers in flight
  acct0           \* the user document at the start (history variable)

vars == <<now, user, userVer, stripe, letterRequests, procs, acct0>>

-----------------------------------------------------------------------------
(* Bounds of the model *)

MaxProc == 3
MaxDay == 60

Procs == 1..MaxProc

-----------------------------------------------------------------------------
(* Dates.  A date is a day number, day 0 being 1 January; null is NullDate. *)

NullDate == -1

MonthStartDay == <<0, 31, 59, 90, 120, 151, 181, 212, 243, 273, 304, 334>>

MonthOf(doy) == CHOOSE m \in 1..12 :
                  /\ MonthStartDay[m] <= doy
                  /\ (m = 12 \/ doy < MonthStartDay[m + 1])

\* Date.setMonth(getMonth() + n): the day of the month is kept and a day past
\* the end of the target month runs over into the next one
AddMonths(d, n) ==
  LET y   == d \div 365
      doy == d % 365
      m   == MonthOf(doy)
      dom == doy - MonthStartDay[m]
      k   == (y * 12) + (m - 1) + n
  IN  (365 * (k \div 12)) + MonthStartDay[(k % 12) + 1] + dom

\* Date.setDate(getDate() + n)
AddDays(d, n) == d + n

-----------------------------------------------------------------------------
(* The store *)

NoSub == "none"

\* no creditSchedule field
NoSchedule == [monthlyCredits |-> 0, remainingMonths |-> 0]

\* users/{uid} as register/page.tsx creates it, with (scheduledCredits) the
\* documents of its subcollection users/{uid}/scheduledCredits
NewUser(c) ==
  [ exists |-> TRUE, credits |-> c, planType |-> "free",
    subscriptionEndDate |-> NullDate, stripeSubscriptionId |-> NoSub,
    lastCreditGrant |-> NullDate,
    lastMonthlyCredit |-> NullDate, nextCreditDate |-> NullDate,
    lastMonthlyGrant |-> NullDate,
    nextCreditAllocationDate |-> NullDate, subscriptionPlan |-> FALSE,
    subscriptionStart |-> NullDate,
    creditHistory |-> << >>,
    creditSchedule |-> NoSchedule,
    scheduledCredits |-> {} ]

NoUser == [NewUser(0) EXCEPT !.exists = FALSE]

IdleProc ==
  [ op |-> "idle", pc |-> "idle", sid |-> "", price |-> "", amount |-> 0,
    status |-> "", cur |-> 0, ver |-> 0, att |-> 0, at |-> NullDate,
    delta |-> 0, res |-> "", hist |-> << >>, snap |-> {} ]

Done(p) == procs[p].pc = "done"
Idle(p) == procs[p].op = "idle"
Quiet == \A p \in Procs : Idle(p) \/ Done(p)

\* slots are taken in order
CanStart(p) == Idle(p) /\ \A q \in Procs : q < p => ~Idle(q)

Finish(p, r) == procs' = [procs EXCEPT ![p].pc = "done", ![p].res = r]

\* the handler returns having added d credits (d < 0: a spend) on day t
FinishWith(p, d, t) ==
  procs' = [procs EXCEPT ![p].pc = "done", ![p].res = "ok",
                         ![p].delta = d, ![p].at = t]

Goto(p, l) == procs' = [procs EXCEPT ![p].pc = l]


At(p, o, l) == procs[p].op = o /\ procs[p].pc = l

\* updateDoc(ref, data), and on an error setDoc(ref, data, {merge: true}):
\* updateDoc fails on a missing document, the merge then creates it
UpdateOrMerge(new) ==
  /\ user' = [new EXCEPT !.exists = TRUE]
  /\ userVer' = userVer + 1

Tick(d) ==
  /\ now + d <= MaxDay
  /\ now' = now + d
  /\ UNCHANGED <<user, userVer, stripe, letterRequests, procs, acct0>>

-----------------------------------------------------------------------------
(* app/api/webhook/stripe/route.ts *)

Prices == {"price_monthly", "price_semiannual", "price_annual"}

\* a table that answers an unknown price with the monthly plan
getPlanConfig_default(priceId) ==
  CASE priceId = "price_semiannual" ->
         [known |-> TRUE, credits |-> 150, durationMonths |-> 6]
    [] priceId = "price_annual" ->
         [known |-> TRUE, credits |-> 300, durationMonths |-> 12]
    [] OTHER -> [known |-> TRUE, credits |-> 25, durationMonths |-> 1]

getPlanConfig(priceId) ==
  CASE priceId = "price_monthly" ->
         [known |-> TRUE, credits |-> 25, durationMonths |-> 1]
    [] priceId = "price_semiannual" ->
         [known |-> TRUE, credits |-> 150, durationMonths |-> 6]
    [] priceId = "price_annual" ->
         [known |-> TRUE, credits |-> 300, durationMonths |-> 12]
    [] OTHER -> [known |-> FALSE, credits |-> 0, durationMonths |-> 0]

\* the id of the customer's subscription
SubOf(priceId) == "sub_1"

\* handleCreditsPurchase: credits for the amount paid, in cents
creditsToAdd(amountPaid) ==
  IF amountPaid = 500 THEN 5
  ELSE IF amountPaid = 2000 THEN 25
  ELSE amountPaid \div 100

\* POST: an event arrives; checkout.session.completed, mode subscription
DeliverCheckoutSubscription(p) ==
  /\ CanStart(p)
  /\ procs' = [procs EXCEPT ![p] =
       [IdleProc EXCEPT !.op = "checkout", !.pc = "post", !.status = "subscription",
                        !.sid = "cs_sub", !.price = stripe.priceId]]
  /\ UNCHANGED <<now, user, userVer, stripe, letterRequests, acct0>>

\* POST: checkout.session.completed, mode payment
DeliverCheckoutPayment(p, amountPaid) ==
  /\ CanStart(p)
  /\ procs' = [procs EXCEPT ![p] =
       [IdleProc EXCEPT !.op = "checkout", !.pc = "post", !.status = "payment",
                        !.sid = "cs_pay_" \o ToString(amountPaid),
                        !.amount = amountPaid]]
  /\ UNCHANGED <<now, user, userVer, stripe, letterRequests, acct0>>

\* POST, checkout.session.completed: the user document must exist
POST_checkout(p) ==
  /\ At(p, "checkout", "post")
  /\ IF ~user.exists THEN Finish(p, "400")
     ELSE IF procs[p].status = "subscription" THEN Goto(p, "hsp_read")
     ELSE Goto(p, "hcp_read")
  /\ UNCHANGED <<now, user, userVer, stripe, letterRequests, acct0>>

\* handleSubscriptionPurchase up to getDoc(userRef)
handleSubscriptionPurchase_read(p) ==
  /\ At(p, "checkout", "hsp_read")
  /\ LET planConfig == getPlanConfig(procs[p].price) IN
       IF ~planConfig.known \/ ~user.exists THEN Finish(p, "500")
       ELSE procs' = [procs EXCEPT ![p].pc = "hsp_meta",
                        ![p].at = AddMonths(now, planConfig.durationMonths),
                        ![p].cur = user.credits]
  /\ UNCHANGED <<now, user, userVer, stripe, letterRequests, acct0>>

\* stripe.customers.update(customer, {metadata: {firebaseUserId}}); an error is logged
handleSubscriptionPurchase_meta(p) ==
  /\ At(p, "checkout", "hsp_meta")
  /\ stripe' \in {stripe, [stripe EXCEPT !.firebaseUserId = "u1"]}
  /\ Goto(p, "hsp_write")
  /\ UNCHANGED <<now, user, userVer, letterRequests, acct0>>

\* handleSubscriptionPurchase: updateDoc(userRef, updateData)
handleSubscriptionPurchase_write(p) ==
  /\ At(p, "checkout", "hsp_write")
  /\ LET planConfig == getPlanConfig(procs[p].price) IN
       /\ UpdateOrMerge([user EXCEPT
             !.planType = "premium",
             !.credits = procs[p].cur + planConfig.credits,
             !.subscriptionEndDate = procs[p].at,
             !.stripeSubscriptionId = SubOf(procs[p].price),
             !.lastCreditGrant = now])
       /\ FinishWith(p, planConfig.credits, now)
  /\ UNCHANGED <<now, stripe, letterRequests, acct0>>

\* handleCreditsPurchase: getDoc(userRef)
handleCreditsPurchase_read(p) ==
  /\ At(p, "checkout", "hcp_read")
  /\ IF ~user.exists THEN Finish(p, "500")
     ELSE procs' = [procs EXCEPT ![p].pc = "hcp_write", ![p].cur = user.credits]
  /\ UNCHANGED <<now, user, userVer, stripe, letterRequests, acct0>>

\* handleCreditsPurchase: updateDoc(userRef, {credits})
handleCreditsPurchase_write(p) ==
  /\ At(p, "checkout", "hcp_write")
  /\ UpdateOrMerge([user EXCEPT
        !.credits = procs[p].cur + creditsToAdd(procs[p].amount)])
  /\ FinishWith(p, creditsToAdd(procs[p].amount), now)
  /\ UNCHANGED <<now, stripe, letterRequests, acct0>>

\* POST: invoice.payment_succeeded for the customer's subscription
DeliverInvoice(p) ==
  /\ CanStart(p)
  /\ procs' = [procs EXCEPT ![p] =
       [IdleProc EXCEPT !.op = "invoice", !.pc = "hsr_cust",
                        !.sid = "in_sub", !.price = stripe.priceId]]
  /\ UNCHANGED <<now, user, userVer, stripe, letterRequests, acct0>>

\* handleSubscriptionRenewal: stripe.customers.retrieve, metadata.firebaseUserId
handleSubscriptionRenewal_customer(p) ==
  /\ At(p, "invoice", "hsr_cust")
  /\ IF stripe.firebaseUserId = "u1" THEN Goto(p, "hsr_read") ELSE Goto(p, "hsr_query")
  /\ UNCHANGED <<now, user, userVer, stripe, letterRequests, acct0>>

\* handleSubscriptionRenewal: the user whose stripeSubscriptionId is the invoice's
handleSubscriptionRenewal_query(p) ==
  /\ At(p, "invoice", "hsr_query")
  /\ IF user.exists /\ user.stripeSubscriptionId = SubOf(procs[p].price)
     THEN Goto(p, "hsr_meta")
     ELSE Finish(p, "500")
  /\ UNCHANGED <<now, user, userVer, stripe, letterRequests, acct0>>

\* handleSubscriptionRenewal: stripe.customers.update; an error is logged
handleSubscriptionRenewal_meta(p) ==
  /\ At(p, "invoice", "hsr_meta")
  /\ stripe' \in {stripe, [stripe EXCEPT !.firebaseUserId = "u1"]}
  /\ Goto(p, "hsr_read")
  /\ UNCHANGED <<now, user, userVer, letterRequests, acct0>>

\* handleSubscriptionRenewal: getPlanConfig, the new end date, getDoc(userRef)
handleSubscriptionRenewal_read(p) ==
  /\ At(p, "invoice", "hsr_read")
  /\ LET planConfig == getPlanConfig(procs[p].price) IN
       IF ~planConfig.known \/ ~user.exists THEN Finish(p, "500")
       ELSE procs' = [procs EXCEPT ![p].pc = "hsr_write",
                        ![p].at = AddMonths(now, planConfig.durationMonths),
                        ![p].cur = user.credits]
  /\ UNCHANGED <<now, user, userVer, stripe, letterRequests, acct0>>

\* handleSubscriptionRenewal: updateDoc(userRef, renewalUpdateData)
handleSubscriptionRenewal_write(p) ==
  /\ At(p, "invoice", "hsr_write")
  /\ LET planConfig == getPlanConfig(procs[p].price) IN
       /\ UpdateOrMerge([user EXCEPT
             !.credits = procs[p].cur + planConfig.credits,
             !.subscriptionEndDate = procs[p].at,
             !.lastCreditGrant = now])
       /\ FinishWith(p, planConfig.credits, now)
  /\ UNCHANGED <<now, stripe, letterRequests, acct0>>

SubscriptionStatuses ==
  {"active", "canceled", "unpaid", "incomplete_expired", "past_due"}

\* POST: customer.subscription.updated / customer.subscription.deleted
DeliverSubscriptionChange(p, st) ==
  /\ CanStart(p)
  /\ procs' = [procs EXCEPT ![p] =
       [IdleProc EXCEPT !.op = "subscription", !.pc = "hsc_cust",
                        !.sid = "sub_" \o st, !.price = stripe.priceId,
                        !.status = st]]
  /\ UNCHANGED <<now, user, userVer, stripe, letterRequests, acct0>>

\* handleSubscriptionChange: stripe.customers.retrieve, metadata.firebaseUserId
handleSubscriptionChange_customer(p) ==
  /\ At(p, "subscription", "hsc_cust")
  /\ IF stripe.firebaseUserId = "u1" THEN Goto(p, "hsc_write") ELSE Goto(p, "hsc_query")
  /\ UNCHANGED <<now, user, userVer, stripe, letterRequests, acct0>>

\* handleSubscriptionChange: the user whose stripeSubscriptionId is the event's
handleSubscriptionChange_query(p) ==
  /\ At(p, "subscription", "hsc_query")
  /\ IF user.exists /\ user.stripeSubscriptionId = SubOf(procs[p].price)
     THEN Goto(p, "hsc_write")
     ELSE Finish(p, "500")
  /\ UNCHANGED <<now, user, userVer, stripe, letterRequests, acct0>>

\* a downgrade that also takes the credits back
handleSubscriptionChange_write_clawback(p) ==
  /\ At(p, "subscription", "hsc_write")
  /\ IF procs[p].status \in {"canceled", "unpaid", "incomplete_expired"}
     THEN UpdateOrMerge([user EXCEPT !.planType = "free",
                                     !.stripeSubscriptionId = NoSub,
                                     !.subscriptionEndDate = NullDate,
                                     !.credits = 0])
     ELSE IF procs[p].status = "active"
     THEN UpdateOrMerge([user EXCEPT !.planType = "premium",
                                     !.stripeSubscriptionId = SubOf(procs[p].price)])
     ELSE UNCHANGED <<user, userVer>>
  /\ FinishWith(p, 0, now)
  /\ UNCHANGED <<now, stripe, letterRequests, acct0>>

\* handleSubscriptionChange: the downgrade or the upgrade
handleSubscriptionChange_write(p) ==
  /\ At(p, "subscription", "hsc_write")
  /\ IF procs[p].status \in {"canceled", "unpaid", "incomplete_expired"}
     THEN UpdateOrMerge([user EXCEPT !.planType = "free",
                                     !.stripeSubscriptionId = NoSub,
                                     !.subscriptionEndDate = NullDate])
     ELSE IF procs[p].status = "active"
     THEN UpdateOrMerge([user EXCEPT !.planType = "premium",
                                     !.stripeSubscriptionId = SubOf(procs[p].price)])
     ELSE UNCHANGED <<user, userVer>>
  /\ FinishWith(p, 0, now)
  /\ UNCHANGED <<now, stripe, letterRequests, acct0>>

-----------------------------------------------------------------------------
(* app/dashboard/page.tsx *)

maxAttempts == 5

\* handleMakeRequest up to runTransaction: the page's userData (the document as
\* the page loaded it, or as it last fetched it again) decides first
handleMakeRequest(p, pdfScan, delivery) ==
  /\ CanStart(p)
  /\ user.exists
  /\ pdfScan \/ delivery
  /\ \E userData \in {acct0, user} :
     LET creditsNeeded == (IF pdfScan THEN 1 ELSE 0) + (IF delivery THEN 1 ELSE 0) IN
       procs' = [procs EXCEPT ![p] =
         IF userData.credits < creditsNeeded
         THEN [IdleProc EXCEPT !.op = "request", !.pc = "done", !.res = "alert",
                               !.amount = creditsNeeded]
         ELSE [IdleProc EXCEPT !.op = "request", !.pc = "tx_get",
                               !.amount = creditsNeeded]]
  /\ UNCHANGED <<now, user, userVer, stripe, letterRequests, acct0>>

\* runTransaction: transaction.get(userRef) and the update function
handleMakeRequest_get(p) ==
  /\ At(p, "request", "tx_get")
  /\ IF ~user.exists \/ user.credits < procs[p].amount
     THEN Finish(p, "error")
     ELSE procs' = [procs EXCEPT ![p].pc = "tx_commit",
                                 ![p].cur = user.credits, ![p].ver = userVer]
  /\ UNCHANGED <<now, user, userVer, stripe, letterRequests, acct0>>

\* the writes of the transaction, applied together when users/u1 is as read
TransactionWrites(p) ==
  /\ user' = [user EXCEPT !.credits = procs[p].cur - procs[p].amount]
  /\ userVer' = userVer + 1
  /\ letterRequests' = letterRequests \cup
       {[id |-> p, creditsDeducted |-> procs[p].amount, status |-> "pending"]}

\* a commit that does not compare the document with the one read
handleMakeRequest_commit_unchecked(p) ==
  /\ At(p, "request", "tx_commit")
  /\ TransactionWrites(p)
  /\ FinishWith(p, 0 - procs[p].amount, now)
  /\ UNCHANGED <<now, stripe, acct0>>

\* runTransaction: the commit; a document written since the get makes it run again
handleMakeRequest_commit(p) ==
  /\ At(p, "request", "tx_commit")
  /\ IF userVer = procs[p].ver
     THEN /\ TransactionWrites(p)
          /\ FinishWith(p, 0 - procs[p].amount, now)
     ELSE /\ IF procs[p].att + 1 >= maxAttempts
             THEN Finish(p, "error")
             ELSE procs' = [procs EXCEPT ![p].pc = "tx_get",
                                         ![p].att = procs[p].att + 1]
          /\ UNCHANGED <<user, userVer, letterRequests>>
  /\ UNCHANGED <<now, stripe, acct0>>

-----------------------------------------------------------------------------
(* app/api/cron/monthly-credits/route.ts *)

\* the sweep without the test of lastMonthlyGrant
cronMonthlyCredits_unchecked(p) ==
  /\ CanStart(p)
  /\ user.exists
  /\ procs' = [procs EXCEPT ![p] =
       [IdleProc EXCEPT !.op = "cronMonthly", !.pc = "cm_write",
          !.cur = user.credits, !.at = now,
          !.amount = 5 + (IF user.planType = "premium" THEN 20 ELSE 0)]]
  /\ UNCHANGED <<now, user, userVer, stripe, letterRequests, acct0>>

\* POST: getDocs(users), and for the user the grant and the 25-day check
cronMonthlyCredits(p) ==
  /\ CanStart(p)
  /\ user.exists
  /\ LET daysSinceLastGrant == now - user.lastMonthlyGrant IN
       procs' = [procs EXCEPT ![p] =
         IF user.lastMonthlyGrant # NullDate /\ daysSinceLastGrant < 25
         THEN [IdleProc EXCEPT !.op = "cronMonthly", !.pc = "done", !.res = "skipped"]
         ELSE [IdleProc EXCEPT !.op = "cronMonthly", !.pc = "cm_write",
                 !.cur = user.credits, !.at = now,
                 !.amount = 5 + (IF user.planType = "premium" THEN 20 ELSE 0)]]
  /\ UNCHANGED <<now, user, userVer, stripe, letterRequests, acct0>>

\* POST: updateDoc(doc(db, "users", userId), updateData)
cronMonthlyCredits_write(p) ==
  /\ At(p, "cronMonthly", "cm_write")
  /\ user' = [user EXCEPT !.credits = procs[p].cur + procs[p].amount,
                          !.lastMonthlyGrant = procs[p].at]
  /\ userVer' = userVer + 1
  /\ FinishWith(p, procs[p].amount, procs[p].at)
  /\ UNCHANGED <<now, stripe, letterRequests, acct0>>

-----------------------------------------------------------------------------
(* app/api/check-credits/route.ts *)

MONTHLY_CREDITS == 20

getNextCreditDate(fromDate) == AddDays(fromDate, 30)

\* arrayUnion of an entry dated Timestamp.now(): no earlier entry equals it
arrayUnion(history, entry) == Append(history, entry)

\* an update function that does not look at planType
checkCreditsUpdate_anyPlan(u, t) ==
  IF u.lastMonthlyCredit = NullDate
  THEN [u EXCEPT !.lastMonthlyCredit = t, !.nextCreditDate = getNextCreditDate(t)]
  ELSE IF u.nextCreditDate = NullDate \/ t >= u.nextCreditDate
  THEN [u EXCEPT !.credits = @ + MONTHLY_CREDITS,
                 !.lastMonthlyCredit = t,
                 !.nextCreditDate = getNextCreditDate(t),
                 !.creditHistory = arrayUnion(@,
                     [date |-> t, credits |-> MONTHLY_CREDITS, type |-> "monthly"])]
  ELSE u

\* an update function that grants without moving nextCreditDate
checkCreditsUpdate_sameDate(u, t) ==
  IF u.planType # "premium" THEN u
  ELSE IF u.lastMonthlyCredit = NullDate
  THEN [u EXCEPT !.lastMonthlyCredit = t, !.nextCreditDate = getNextCreditDate(t)]
  ELSE IF u.nextCreditDate = NullDate \/ t >= u.nextCreditDate
  THEN [u EXCEPT !.credits = @ + MONTHLY_CREDITS,
                 !.lastMonthlyCredit = t,
                 !.creditHistory = arrayUnion(@,
                     [date |-> t, credits |-> MONTHLY_CREDITS, type |-> "monthly"])]
  ELSE u

\* what the update function of POST writes for the document it read
checkCreditsUpdate(u, t) ==
  IF u.planType # "premium" THEN u
  ELSE IF u.lastMonthlyCredit = NullDate
  THEN [u EXCEPT !.lastMonthlyCredit = t, !.nextCreditDate = getNextCreditDate(t)]
  ELSE IF u.nextCreditDate = NullDate \/ t >= u.nextCreditDate
  THEN [u EXCEPT !.credits = @ + MONTHLY_CREDITS,
                 !.lastMonthlyCredit = t,
                 !.nextCreditDate = getNextCreditDate(t),
                 !.creditHistory = arrayUnion(@,
                     [date |-> t, credits |-> MONTHLY_CREDITS, type |-> "monthly"])]
  ELSE u

\* POST: a login asks for the monthly credits
checkCredits(p) ==
  /\ CanStart(p)
  /\ procs' = [procs EXCEPT ![p] =
       [IdleProc EXCEPT !.op = "checkCredits", !.pc = "cc_get"]]
  /\ UNCHANGED <<now, user, userVer, stripe, letterRequests, acct0>>

\* POST, runTransaction: transaction.get(userRef) and the update function
checkCredits_get(p) ==
  /\ At(p, "checkCredits", "cc_get")
  /\ IF ~user.exists THEN Finish(p, "500")
     ELSE procs' = [procs EXCEPT ![p].pc = "cc_commit",
                                 ![p].ver = userVer, ![p].at = now]
  /\ UNCHANGED <<now, user, userVer, stripe, letterRequests, acct0>>

\* POST, runTransaction: the commit
checkCredits_commit(p) ==
  /\ At(p, "checkCredits", "cc_commit")
  /\ IF userVer = procs[p].ver
     THEN LET new == checkCreditsUpdate(user, procs[p].at) IN
            /\ user' = new
            /\ userVer' = IF new = user THEN userVer ELSE userVer + 1
            /\ FinishWith(p, new.credits - user.credits, procs[p].at)
     ELSE /\ IF procs[p].att + 1 >= maxAttempts
             THEN Finish(p, "500")
             ELSE procs' = [procs EXCEPT ![p].pc = "cc_get",
                                         ![p].att = procs[p].att + 1]
          /\ UNCHANGED <<user, userVer>>
  /\ UNCHANGED <<now, stripe, letterRequests, acct0>>

-----------------------------------------------------------------------------
(* app/api/cron/allocate-credits/route.ts *)

\* GET: the query planType == "premium", nextCreditAllocationDate <= now
cronAllocateCredits(p) ==
  /\ CanStart(p)
  /\ procs' = [procs EXCEPT ![p] =
       IF /\ user.exists /\ user.planType = "premium"
          /\ user.nextCreditAllocationDate # NullDate
          /\ user.nextCreditAllocationDate <= now
       THEN IF user.subscriptionEndDate = NullDate \/ user.subscriptionEndDate < now
            THEN [IdleProc EXCEPT !.op = "cronAllocate", !.pc = "ca_downgrade"]
            ELSE IF ~user.subscriptionPlan
            THEN [IdleProc EXCEPT !.op = "cronAllocate", !.pc = "done",
                                  !.res = "skipped"]
            ELSE [IdleProc EXCEPT !.op = "cronAllocate", !.pc = "ca_write",
                                  !.cur = user.credits, !.amount = 25,
                                  !.at = AddMonths(now, 1)]
       ELSE [IdleProc EXCEPT !.op = "cronAllocate", !.pc = "done",
                             !.res = "none"]]
  /\ UNCHANGED <<now, user, userVer, stripe, letterRequests, acct0>>

\* a downgrade that also takes the credits of the ended subscription away
cronAllocateCredits_downgrade_forfeit(p) ==
  /\ At(p, "cronAllocate", "ca_downgrade")
  /\ user' = [user EXCEPT !.planType = "free", !.stripeSubscriptionId = NoSub,
                          !.subscriptionEndDate = NullDate,
                          !.nextCreditAllocationDate = NullDate,
                          !.subscriptionPlan = FALSE,
                          !.credits = 0]
  /\ userVer' = userVer + 1
  /\ FinishWith(p, 0, now)
  /\ UNCHANGED <<now, stripe, letterRequests, acct0>>

\* GET: the subscription has ended, updateDoc to the free plan
cronAllocateCredits_downgrade(p) ==
  /\ At(p, "cronAllocate", "ca_downgrade")
  /\ user' = [user EXCEPT !.planType = "free", !.stripeSubscriptionId = NoSub,
                          !.subscriptionEndDate = NullDate,
                          !.nextCreditAllocationDate = NullDate,
                          !.subscriptionPlan = FALSE]
  /\ userVer' = userVer + 1
  /\ FinishWith(p, 0, now)
  /\ UNCHANGED <<now, stripe, letterRequests, acct0>>

\* GET: updateDoc with the month's credits and the next allocation date
cronAllocateCredits_write(p) ==
  /\ At(p, "cronAllocate", "ca_write")
  /\ user' = [user EXCEPT !.credits = procs[p].cur + procs[p].amount,
                          !.nextCreditAllocationDate = procs[p].at,
                          !.lastCreditGrant = now]
  /\ userVer' = userVer + 1
  /\ FinishWith(p, procs[p].amount, now)
  /\ UNCHANGED <<now, stripe, letterRequests, acct0>>

-----------------------------------------------------------------------------
(* The webhook of app/api/webhook/stripe/route.ts on one account *)

EventPrices == Prices \cup {"price_unknown"}
AmountsPaid == {500, 900, 2000}

InitStore ==
  /\ now = 0
  /\ userVer = 0
  /\ letterRequests = {}
  /\ procs = [p \in Procs |-> IdleProc]
  /\ acct0 = user

InitStripe(prices) ==
  stripe \in [priceId : prices, firebaseUserId : {"", "u1"}]

InitRoute ==
  /\ user \in {NewUser(0), NewUser(5)}
  /\ InitStripe(EventPrices)
  /\ InitStore

RouteStep(p) ==
  \/ POST_checkout(p)
  \/ handleSubscriptionPurchase_read(p)
  \/ handleSubscriptionPurchase_meta(p)
  \/ handleSubscriptionPurchase_write(p)
  \/ handleCreditsPurchase_read(p)
  \/ handleCreditsPurchase_write(p)
  \/ handleSubscriptionRenewal_customer(p)
  \/ handleSubscriptionRenewal_query(p)
  \/ handleSubscriptionRenewal_meta(p)
  \/ handleSubscriptionRenewal_read(p)
  \/ handleSubscriptionRenewal_write(p)
  \/ handleSubscriptionChange_customer(p)
  \/ handleSubscriptionChange_query(p)
  \/ handleSubscriptionChange_write(p)

NextRoute ==
  \/ \E p \in Procs : DeliverCheckoutSubscription(p)
  \/ \E p \in Procs, amountPaid \in AmountsPaid : DeliverCheckoutPayment(p, amountPaid)
  \/ \E p \in Procs : DeliverInvoice(p)
  \/ \E p \in Procs, st \in SubscriptionStatuses : DeliverSubscriptionChange(p, st)
  \/ \E p \in Procs : RouteStep(p)

SpecRoute == InitRoute /\ [][NextRoute]_vars

Started == {p \in Procs : ~Idle(p)}

\* C1: delivering one checkout.session.completed event (one session id) any
\* number of times grants its credits once: when every delivery of the session
\* has been answered 200 and nothing else ran, the balance is the starting
\* balance plus one grant of the session's credits.
C1_ReplayGrantsOnce ==
  ( /\ Quiet
    /\ Started # {}
    /\ \A p \in Started : /\ procs[p].op = "checkout"
                          /\ procs[p].sid = procs[1].sid
                          /\ procs[p].res = "ok" )
  => user.credits = acct0.credits + procs[1].delta

\* C2: the checkout.session.completed and the invoice.payment_succeeded of one
\* first payment, both answered 200 in any order or interleaving, raise the
\* balance by the plan's credits once.
C2_FirstPaymentGrantsOnce ==
  ( /\ Quiet
    /\ Started = {1, 2}
    /\ \E p, q \in Started :
         /\ procs[p].op = "checkout" /\ procs[p].status = "subscription"
         /\ procs[q].op = "invoice"
         /\ procs[p].res = "ok" /\ procs[q].res = "ok" )
  => user.credits = acct0.credits + getPlanConfig(stripe.priceId).credits

-----------------------------------------------------------------------------
(* The grant paths on one premium account: the login check, the two sweeps
   and the renewal webhook *)

\* a new account after the subscription checkout of day 0: as route.ts leaves
\* it, or (allocation) with the allocation date and plan another deployed
\* variant of the webhook stores as well
PremiumUser(priceId, allocation) ==
  [NewUser(IF allocation THEN 25 ELSE getPlanConfig(priceId).credits) EXCEPT
     !.planType = "premium",
     !.subscriptionEndDate = AddMonths(0, getPlanConfig(priceId).durationMonths),
     !.stripeSubscriptionId = SubOf(priceId),
     !.lastCreditGrant = 0,
     !.nextCreditAllocationDate = IF allocation THEN AddMonths(0, 1) ELSE NullDate,
     !.subscriptionPlan = allocation]

GrantTicks == {25, 30}

InitGrant ==
  /\ InitStripe({"price_monthly", "price_annual"})
  /\ user \in {PremiumUser(stripe.priceId, a) : a \in BOOLEAN}
  /\ InitStore

NextGrant ==
  \/ \E d \in GrantTicks : Tick(d)
  \/ \E p \in Procs : checkCredits(p)
  \/ \E p \in Procs : checkCredits_get(p)
  \/ \E p \in Procs : checkCredits_commit(p)
  \/ \E p \in Procs : cronMonthlyCredits(p)
  \/ \E p \in Procs : cronMonthlyCredits_write(p)
  \/ \E p \in Procs : cronAllocateCredits(p)
  \/ \E p \in Procs : cronAllocateCredits_downgrade(p)
  \/ \E p \in Procs : cronAllocateCredits_write(p)
  \/ \E p \in Procs : DeliverInvoice(p)
  \/ \E p \in Procs : handleSubscriptionRenewal_customer(p)
  \/ \E p \in Procs : handleSubscriptionRenewal_query(p)
  \/ \E p \in Procs : handleSubscriptionRenewal_meta(p)
  \/ \E p \in Procs : handleSubscriptionRenewal_read(p)
  \/ \E p \in Procs : handleSubscriptionRenewal_write(p)

SpecGrant == InitGrant /\ [][NextGrant]_vars

RecurringGrant(p) ==
  /\ Done(p) /\ procs[p].res = "ok" /\ procs[p].delta > 0
  /\ procs[p].op \in {"checkCredits", "cronMonthly", "cronAllocate", "invoice"}

\* C3: over the login check, the two sweeps and the renewal webhook together,
\* a premium account gets at most one recurring monthly grant per 30 days: any
\* two recurring grants that are both in the balance are at least 30 days apart.
C3_OneGrantPerPeriod ==
  \A p, q \in Procs :
    ( /\ p # q /\ RecurringGrant(p) /\ RecurringGrant(q)
      /\ user.credits >= acct0.credits + procs[p].delta + procs[q].delta ) =>
      \/ procs[p].at - procs[q].at >= 30
      \/ procs[q].at - procs[p].at >= 30

-----------------------------------------------------------------------------
(* utils/credits.ts *)

Min(a, b) == IF a < b THEN a ELSE b

\* debitCredits(userId, amount) is called
debitCredits(p, amount) ==
  /\ CanStart(p)
  /\ procs' = [procs EXCEPT ![p] =
       [IdleProc EXCEPT !.op = "debit", !.pc = "dc_get", !.amount = amount]]
  /\ UNCHANGED <<now, user, userVer, stripe, letterRequests, acct0>>

\* a debitCredits that does not compare the balance read with the amount
debitCredits_getUserCredits_untested(p) ==
  /\ At(p, "debit", "dc_get")
  /\ IF ~user.exists THEN Finish(p, "false") ELSE Goto(p, "dc_update")
  /\ UNCHANGED <<now, user, userVer, stripe, letterRequests, acct0>>

\* debitCredits: await getUserCredits(userId) and the test of the balance read
debitCredits_getUserCredits(p) ==
  /\ At(p, "debit", "dc_get")
  /\ IF ~user.exists \/ user.credits < procs[p].amount
     THEN Finish(p, "false")
     ELSE Goto(p, "dc_update")
  /\ UNCHANGED <<now, user, userVer, stripe, letterRequests, acct0>>

\* debitCredits: await updateDoc(ref, {credits: increment(-amount)})
debitCredits_updateDoc(p) ==
  /\ At(p, "debit", "dc_update")
  /\ IF user.exists
     THEN /\ user' = [user EXCEPT !.credits = @ - procs[p].amount]
          /\ userVer' = userVer + 1
          /\ FinishWith(p, 0 - procs[p].amount, now)
     ELSE /\ Finish(p, "false")
          /\ UNCHANGED <<user, userVer>>
  /\ UNCHANGED <<now, stripe, letterRequests, acct0>>

MaxCredits == 3
DebitAmounts == {1, 2}

InitCredits ==
  /\ user \in {NewUser(c) : c \in 0..MaxCredits} \cup {NoUser}
  /\ InitStripe({"price_monthly"})
  /\ InitStore

NextCredits ==
  \/ \E p \in Procs, amount \in DebitAmounts : debitCredits(p, amount)
  \/ \E p \in Procs : debitCredits_getUserCredits(p)
  \/ \E p \in Procs : debitCredits_updateDoc(p)

SpecCredits == InitCredits /\ [][NextCredits]_vars

\* C4: under every interleaving of debitCredits calls on one user that starts
\* with N >= 0 credits the stored balance is never negative, and when all the
\* calls are of amount 1 and have returned, min(N, number of calls) of them
\* returned true.
C4_DebitNeverOverdraws ==
  /\ user.exists => user.credits >= 0
  /\ ( /\ Quiet /\ Started # {} /\ user.exists
       /\ \A p \in Started : procs[p].op = "debit" /\ procs[p].amount = 1 )
     => Cardinality({p \in Started : procs[p].res = "ok"})
          = Min(acct0.credits, Cardinality(Started))

-----------------------------------------------------------------------------
(* utils/creditSystem.ts *)

freeMonthlyCredits == 5
bonusMonthlyCredits == 20

isEligibleForMonthlyCredits(lastMonthlyGrant) ==
  lastMonthlyGrant = NullDate \/ now - lastMonthlyGrant >= 28

\* grantMonthlyCredits(userId) or deductCredits(userId, amount, _) is called
creditSystemCall(p, op, amount) ==
  /\ CanStart(p)
  /\ procs' = [procs EXCEPT ![p] =
       [IdleProc EXCEPT !.op = op, !.pc = "cs_get", !.amount = amount]]
  /\ UNCHANGED <<now, user, userVer, stripe, letterRequests, acct0>>

\* grantMonthlyCredits: await getUserCreditInfo(userId), and the eligibility
grantMonthlyCredits_getUserCreditInfo(p) ==
  /\ At(p, "grantMonthly", "cs_get")
  /\ IF ~user.exists \/ ~isEligibleForMonthlyCredits(user.lastMonthlyGrant)
     THEN Finish(p, "false")
     ELSE procs' = [procs EXCEPT ![p].pc = "cs_update",
            ![p].cur = user.credits, ![p].hist = user.creditHistory,
            ![p].amount = freeMonthlyCredits +
               (IF user.planType = "premium" THEN bonusMonthlyCredits ELSE 0),
            ![p].at = now]
  /\ UNCHANGED <<now, user, userVer, stripe, letterRequests, acct0>>

\* grantMonthlyCredits: await updateDoc(userRef, {credits, lastMonthlyGrant,
\* creditHistory}), all computed from the document read
grantMonthlyCredits_updateDoc(p) ==
  /\ At(p, "grantMonthly", "cs_update")
  /\ IF user.exists
     THEN /\ user' = [user EXCEPT
                 !.credits = procs[p].cur + procs[p].amount,
                 !.lastMonthlyGrant = now,
                 !.creditHistory = Append(procs[p].hist,
                    [date |-> procs[p].at, type |-> "monthly_grant",
                     credits |-> procs[p].amount])]
          /\ userVer' = userVer + 1
          /\ FinishWith(p, procs[p].amount, now)
     ELSE /\ Finish(p, "false")
          /\ UNCHANGED <<user, userVer>>
  /\ UNCHANGED <<now, stripe, letterRequests, acct0>>

\* deductCredits: await getUserCreditInfo(userId), and the test of the balance
deductCredits_getUserCreditInfo(p) ==
  /\ At(p, "deduct", "cs_get")
  /\ IF ~user.exists \/ user.credits < procs[p].amount
     THEN Finish(p, "false")
     ELSE procs' = [procs EXCEPT ![p].pc = "cs_update",
            ![p].cur = user.credits, ![p].hist = user.creditHistory,
            ![p].at = now]
  /\ UNCHANGED <<now, user, userVer, stripe, letterRequests, acct0>>

\* a deductCredits that takes the amount from the stored balance with
\* increment(-amount) and writes the history of the document read
deductCredits_updateDoc_increment(p) ==
  /\ At(p, "deduct", "cs_update")
  /\ IF user.exists
     THEN /\ user' = [user EXCEPT
                 !.credits = @ - procs[p].amount,
                 !.creditHistory = Append(procs[p].hist,
                    [date |-> procs[p].at, type |-> "usage",
                     credits |-> 0 - procs[p].amount])]
          /\ userVer' = userVer + 1
          /\ FinishWith(p, 0 - procs[p].amount, now)
     ELSE /\ Finish(p, "false")
          /\ UNCHANGED <<user, userVer>>
  /\ UNCHANGED <<now, stripe, letterRequests, acct0>>

\* deductCredits: await updateDoc(userRef, {credits, creditHistory}), both
\* computed from the document read
deductCredits_updateDoc(p) ==
  /\ At(p, "deduct", "cs_update")
  /\ IF user.exists
     THEN /\ user' = [user EXCEPT
                 !.credits = procs[p].cur - procs[p].amount,
                 !.creditHistory = Append(procs[p].hist,
                    [date |-> procs[p].at, type |-> "usage",
                     credits |-> 0 - procs[p].amount])]
          /\ userVer' = userVer + 1
          /\ FinishWith(p, 0 - procs[p].amount, now)
     ELSE /\ Finish(p, "false")
          /\ UNCHANGED <<user, userVer>>
  /\ UNCHANGED <<now, stripe, letterRequests, acct0>>

InitCreditSystem ==
  /\ user \in {NewUser(c) : c \in 0..MaxCredits} \cup {NoUser}
  /\ InitStripe({"price_monthly"})
  /\ InitStore

NextCreditSystem ==
  \/ Tick(28)
  \/ \E p \in Procs : creditSystemCall(p, "grantMonthly", 0)
  \/ \E p \in Procs, amount \in DebitAmounts : creditSystemCall(p, "deduct", amount)
  \/ \E p \in Procs : grantMonthlyCredits_getUserCreditInfo(p)
  \/ \E p \in Procs : grantMonthlyCredits_updateDoc(p)
  \/ \E p \in Procs : deductCredits_getUserCreditInfo(p)
  \/ \E p \in Procs : deductCredits_updateDoc(p)

SpecCreditSystem == InitCreditSystem /\ [][NextCreditSystem]_vars

\* C5: two deductCredits(a) calls on an account whose credits cover one of them
\* but not both (credits 1 and a = 1, credits 3 and a = 2) serialize: when both
\* have returned and nothing else ran, exactly one returned true.
C5_DeductSerializes ==
  ( /\ Quiet /\ Started = {1, 2}
    /\ \A p \in Started : procs[p].op = "deduct" /\ procs[p].amount = procs[1].amount
    /\ user.exists
    /\ acct0.credits >= procs[1].amount
    /\ acct0.credits < 2 * procs[1].amount )
  => Cardinality({p \in Started : procs[p].res = "ok"}) = 1

-----------------------------------------------------------------------------
(* The requests of one user from app/dashboard/page.tsx *)

InitDashboard ==
  /\ user \in {NewUser(c) : c \in 0..MaxCredits}
  /\ InitStripe({"price_monthly"})
  /\ InitStore

NextDashboard ==
  \/ \E p \in Procs, pdfScan, delivery \in BOOLEAN : handleMakeRequest(p, pdfScan, delivery)
  \/ \E p \in Procs : handleMakeRequest_get(p)
  \/ \E p \in Procs : handleMakeRequest_commit(p)

SpecDashboard == InitDashboard /\ [][NextDashboard]_vars

RECURSIVE SumDeducted(_)
SumDeducted(requests) ==
  IF requests = {} THEN 0
  ELSE LET r == CHOOSE x \in requests : TRUE
       IN  r.creditsDeducted + SumDeducted(requests \ {r})

\* C6: under every interleaving of the requests of one user the debit and the
\* request record are one step: in every state the letterRequests documents
\* are those of the requests that succeeded, each with the credits the request
\* needed, the balance is the starting balance less the creditsDeducted of the
\* documents, and the balance is not negative.
C6_DebitAndRecordAtomic ==
  /\ user.credits >= 0
  /\ user.credits = acct0.credits - SumDeducted(letterRequests)
  /\ \A p \in Procs :
       (\E r \in letterRequests : r.id = p) <=>
         (procs[p].op = "request" /\ procs[p].res = "ok")
  /\ \A r \in letterRequests : r.creditsDeducted = procs[r.id].amount

\* two requests have been recorded, one of them after its transaction ran again
C6_Witness ==
  /\ Cardinality(letterRequests) >= 2
  /\ \E p \in Procs : procs[p].res = "ok" /\ procs[p].att > 0
  /\ user.credits < acct0.credits

-----------------------------------------------------------------------------
(* Grants and the requests of the user on one premium account *)

InitRace ==
  /\ InitStripe({"price_monthly", "price_semiannual"})
  /\ user \in {PremiumUser(stripe.priceId, FALSE)}
  /\ InitStore

NextRace ==
  \/ \E p \in Procs, pdfScan, delivery \in BOOLEAN : handleMakeRequest(p, pdfScan, delivery)
  \/ \E p \in Procs : handleMakeRequest_get(p)
  \/ \E p \in Procs : handleMakeRequest_commit(p)
  \/ \E p \in Procs : cronMonthlyCredits(p)
  \/ \E p \in Procs : cronMonthlyCredits_write(p)
  \/ \E p \in Procs : DeliverInvoice(p)
  \/ \E p \in Procs : handleSubscriptionRenewal_customer(p)
  \/ \E p \in Procs : handleSubscriptionRenewal_query(p)
  \/ \E p \in Procs : handleSubscriptionRenewal_meta(p)
  \/ \E p \in Procs : handleSubscriptionRenewal_read(p)
  \/ \E p \in Procs : handleSubscriptionRenewal_write(p)

SpecRace == InitRace /\ [][NextRace]_vars

\* C7: a grant of handleSubscriptionRenewal or of the cron/monthly-credits
\* sweep and a request of the user on the same account, in any interleaving:
\* when both have succeeded and nothing else ran, the balance is the starting
\* balance plus the credits granted less the credits spent.
C7_NoLostUpdate ==
  ( /\ Quiet /\ Started = {1, 2}
    /\ \A p \in Started : procs[p].res = "ok"
    /\ \E p, q \in Started :
         /\ procs[p].op \in {"invoice", "cronMonthly"}
         /\ procs[q].op = "request" )
  => user.credits = acct0.credits + procs[1].delta + procs[2].delta

-----------------------------------------------------------------------------
(* The webhook with the credit history (runTransaction, creditHistory) *)

\* getPlanConfig of this webhook: the duration of a known price, 0 for null
p005_getPlanConfig(priceId) ==
  CASE priceId = "price_monthly" -> 1
    [] priceId = "price_semiannual" -> 6
    [] priceId = "price_annual" -> 12
    [] OTHER -> 0

\* CREDIT_PACKAGES of buy-credits, as checkout metadata.credits
CreditPackages == {5, 25}

\* runTransaction: transaction.get(userRef); a missing user throws
RunTransaction_get(p, l_get, l_commit) ==
  /\ procs[p].pc = l_get
  /\ IF ~user.exists THEN Finish(p, "500")
     ELSE procs' = [procs EXCEPT ![p].pc = l_commit,
                                 ![p].ver = userVer, ![p].at = now]
  /\ UNCHANGED <<now, user, userVer, stripe, letterRequests, acct0>>

\* runTransaction: the commit of the writes new, or the update function again
RunTransaction_commit(p, l_get, l_commit, new) ==
  /\ procs[p].pc = l_commit
  /\ IF userVer = procs[p].ver
     THEN /\ user' = new
          /\ userVer' = IF new = user THEN userVer ELSE userVer + 1
          /\ FinishWith(p, new.credits - user.credits, procs[p].at)
     ELSE /\ IF procs[p].att + 1 >= maxAttempts
             THEN Finish(p, "500")
             ELSE procs' = [procs EXCEPT ![p].pc = l_get,
                                         ![p].att = procs[p].att + 1]
          /\ UNCHANGED <<user, userVer>>
  /\ UNCHANGED <<now, stripe, letterRequests, acct0>>

\* POST: checkout.session.completed, of a subscription or (credits > 0) of a
\* credit purchase with metadata.credits
p005_DeliverCheckout(p, credits) ==
  /\ CanStart(p)
  /\ procs' = [procs EXCEPT ![p] =
       IF credits > 0
       THEN [IdleProc EXCEPT !.op = "p005_credits", !.pc = "tx_get",
                             !.amount = credits]
       ELSE [IdleProc EXCEPT !.op = "p005_checkout", !.pc = "retrieve"]]
  /\ UNCHANGED <<now, user, userVer, stripe, letterRequests, acct0>>

\* handleCheckoutCompleted: stripe.subscriptions.retrieve and getPlanConfig
p005_handleCheckoutCompleted_retrieve(p) ==
  /\ At(p, "p005_checkout", "retrieve")
  /\ IF p005_getPlanConfig(stripe.priceId) = 0
     THEN Finish(p, "500")
     ELSE procs' = [procs EXCEPT ![p].pc = "tx_get", ![p].price = stripe.priceId]
  /\ UNCHANGED <<now, user, userVer, stripe, letterRequests, acct0>>

\* handleCheckoutCompleted: what the update function writes on day t
p005_checkoutUpdate(u, t, priceId) ==
  LET initialCredits == 25
      subscriptionStart ==
        IF /\ u.subscriptionEndDate # NullDate /\ u.planType = "premium"
           /\ u.subscriptionEndDate > t
        THEN u.subscriptionEndDate ELSE t
  IN [u EXCEPT
        !.planType = "premium",
        !.credits = @ + initialCredits,
        !.stripeSubscriptionId = SubOf(priceId),
        !.subscriptionStart = t,
        !.subscriptionEndDate =
            AddMonths(subscriptionStart, p005_getPlanConfig(priceId)),
        !.lastMonthlyCredit = t,
        !.nextCreditDate = getNextCreditDate(subscriptionStart),
        !.creditHistory = arrayUnion(@,
            [date |-> t, credits |-> initialCredits, type |-> "initial"])]

p005_handleCheckoutCompleted_get(p) ==
  /\ procs[p].op = "p005_checkout"
  /\ RunTransaction_get(p, "tx_get", "tx_commit")

p005_handleCheckoutCompleted_commit(p) ==
  /\ procs[p].op = "p005_checkout"
  /\ RunTransaction_commit(p, "tx_get", "tx_commit",
      p005_checkoutUpdate(user, procs[p].at, procs[p].price))

\* handleCreditPurchase: increment(credits) and the history entry
p005_creditPurchaseUpdate(u, t, credits) ==
  [u EXCEPT !.credits = @ + credits,
            !.creditHistory = arrayUnion(@,
                [date |-> t, credits |-> credits, type |-> "purchased"])]

p005_handleCreditPurchase_get(p) ==
  /\ procs[p].op = "p005_credits"
  /\ RunTransaction_get(p, "tx_get", "tx_commit")

p005_handleCreditPurchase_commit(p) ==
  /\ procs[p].op = "p005_credits"
  /\ RunTransaction_commit(p, "tx_get", "tx_commit",
      p005_creditPurchaseUpdate(user, procs[p].at, procs[p].amount))

\* POST: invoice.payment_succeeded
p005_DeliverInvoice(p) ==
  /\ CanStart(p)
  /\ procs' = [procs EXCEPT ![p] =
       [IdleProc EXCEPT !.op = "p005_invoice", !.pc = "customer",
                        !.price = stripe.priceId]]
  /\ UNCHANGED <<now, user, userVer, stripe, letterRequests, acct0>>

\* where a handler goes on with the user id: handleInvoicePaid to its
\* transaction, handleSubscriptionChange of the same webhook to its updateDoc,
\* handleSubscriptionChange of the webhook with scheduled
\* distributions to the pending distributions or to updateUserDocument
withUserId(p) ==
  IF procs[p].op = "p005_invoice" THEN "tx_get"
  ELSE IF procs[p].op = "p005_change" THEN "write"
  ELSE IF procs[p].op = "p006_invoice" THEN "pp_query"
  ELSE IF procs[p].status \in {"canceled", "unpaid", "incomplete_expired"}
  THEN "cancel" ELSE "uud_get"

\* getUserIdFromSubscription: stripe.customers.retrieve and its metadata
getUserIdFromSubscription_customer(p) ==
  /\ procs[p].op \in {"p005_invoice", "p005_change", "p006_change", "p006_invoice"}
  /\ procs[p].pc = "customer"
  /\ Goto(p, IF stripe.firebaseUserId = "" THEN "query" ELSE withUserId(p))
  /\ UNCHANGED <<now, user, userVer, stripe, letterRequests, acct0>>

\* getUserIdFromSubscription: the query of users by stripeSubscriptionId
getUserIdFromSubscription_query(p) ==
  /\ procs[p].op \in {"p005_invoice", "p005_change", "p006_change", "p006_invoice"}
  /\ procs[p].pc = "query"
  /\ IF user.exists /\ user.stripeSubscriptionId = SubOf(procs[p].price)
     THEN Goto(p, "meta")
     ELSE Finish(p, "500")
  /\ UNCHANGED <<now, user, userVer, stripe, letterRequests, acct0>>

\* getUserIdFromSubscription: stripe.customers.update of the metadata
getUserIdFromSubscription_meta(p) ==
  /\ procs[p].op \in {"p005_invoice", "p005_change", "p006_change", "p006_invoice"}
  /\ procs[p].pc = "meta"
  /\ stripe' = [stripe EXCEPT !.firebaseUserId = "u1"]
  /\ Goto(p, withUserId(p))
  /\ UNCHANGED <<now, user, userVer, letterRequests, acct0>>

\* an update function that adds the monthly credits on every paid invoice,
\* whether or not nextCreditDate has been reached
p005_invoiceUpdate_always(u, t, periodEnd) ==
  IF u.planType # "premium" THEN u
  ELSE [u EXCEPT !.subscriptionEndDate = periodEnd,
                 !.credits = @ + MONTHLY_CREDITS,
                 !.lastMonthlyCredit = t,
                 !.nextCreditDate = getNextCreditDate(t),
                 !.creditHistory = arrayUnion(@,
                     [date |-> t, credits |-> MONTHLY_CREDITS, type |-> "monthly"])]

\* handleInvoicePaid: what the update function writes on day t, the period of
\* the subscription ending on day periodEnd
p005_invoiceUpdate(u, t, periodEnd) ==
  IF u.planType # "premium" THEN u
  ELSE LET v == [u EXCEPT !.subscriptionEndDate = periodEnd] IN
    IF u.lastMonthlyCredit = NullDate
    THEN [v EXCEPT !.lastMonthlyCredit = t, !.nextCreditDate = getNextCreditDate(t)]
    ELSE IF u.nextCreditDate = NullDate \/ t >= u.nextCreditDate
    THEN [v EXCEPT !.credits = @ + MONTHLY_CREDITS,
                   !.lastMonthlyCredit = t,
                   !.nextCreditDate = getNextCreditDate(t),
                   !.creditHistory = arrayUnion(@,
                       [date |-> t, credits |-> MONTHLY_CREDITS, type |-> "monthly"])]
    ELSE v

p005_handleInvoicePaid_get(p) ==
  /\ procs[p].op = "p005_invoice"
  /\ RunTransaction_get(p, "tx_get", "tx_commit")

p005_handleInvoicePaid_commit(p) ==
  /\ procs[p].op = "p005_invoice"
  /\ RunTransaction_commit(p, "tx_get", "tx_commit",
      p005_invoiceUpdate(user, procs[p].at,
          AddMonths(procs[p].at, p005_getPlanConfig(procs[p].price))))

-----------------------------------------------------------------------------
(* The credit history of one account: the webhook above and the requests of
   the user *)

InitLedger ==
  /\ user = NewUser(0)
  /\ InitStripe({"price_monthly", "price_unknown"})
  /\ InitStore

NextLedger ==
  \/ Tick(30)
  \/ \E p \in Procs, credits \in CreditPackages \cup {0} : p005_DeliverCheckout(p, credits)
  \/ \E p \in Procs : p005_handleCheckoutCompleted_retrieve(p)
  \/ \E p \in Procs : p005_handleCheckoutCompleted_get(p)
  \/ \E p \in Procs : p005_handleCheckoutCompleted_commit(p)
  \/ \E p \in Procs : p005_handleCreditPurchase_get(p)
  \/ \E p \in Procs : p005_handleCreditPurchase_commit(p)
  \/ \E p \in Procs : p005_DeliverInvoice(p)
  \/ \E p \in Procs : getUserIdFromSubscription_customer(p)
  \/ \E p \in Procs : getUserIdFromSubscription_query(p)
  \/ \E p \in Procs : getUserIdFromSubscription_meta(p)
  \/ \E p \in Procs : p005_handleInvoicePaid_get(p)
  \/ \E p \in Procs : p005_handleInvoicePaid_commit(p)
  \/ \E p \in Procs, pdfScan, delivery \in BOOLEAN : handleMakeRequest(p, pdfScan, delivery)
  \/ \E p \in Procs : handleMakeRequest_get(p)
  \/ \E p \in Procs : handleMakeRequest_commit(p)

SpecLedger == InitLedger /\ [][NextLedger]_vars

RECURSIVE SumCredits(_)
SumCredits(history) ==
  IF history = << >> THEN 0
  ELSE Head(history).credits + SumCredits(Tail(history))

\* C8: from credits 0 and an empty history, under any sequence of subscription
\* checkouts, credit purchases, monthly grants and requests of the user, in
\* every state credits is the sum of the credits of the creditHistory entries.
C8_CreditsEqualHistory ==
  user.credits = SumCredits(user.creditHistory)

-----------------------------------------------------------------------------
(* The webhook with scheduled distributions (scheduledCredits, creditSchedule) *)

\* getPlanConfig of this webhook; durationMonths 0 stands for null
p006_getPlanConfig(priceId) ==
  [ monthlyCredits |-> 20, freeCredits |-> 5,
    durationMonths |-> p005_getPlanConfig(priceId) ]

\* POST: checkout.session.completed with mode subscription
p006_DeliverCheckout(p) ==
  /\ CanStart(p)
  /\ procs' = [procs EXCEPT ![p] =
       [IdleProc EXCEPT !.op = "p006_checkout", !.pc = "retrieve"]]
  /\ UNCHANGED <<now, user, userVer, stripe, letterRequests, acct0>>

\* handleSubscriptionPurchase: stripe.subscriptions.retrieve and getPlanConfig
p006_handleSubscriptionPurchase_retrieve(p) ==
  /\ At(p, "p006_checkout", "retrieve")
  /\ IF p006_getPlanConfig(stripe.priceId).durationMonths = 0
     THEN Finish(p, "500")
     ELSE procs' = [procs EXCEPT ![p].pc = "getDoc", ![p].price = stripe.priceId,
                                 ![p].at = now]
  /\ UNCHANGED <<now, user, userVer, stripe, letterRequests, acct0>>

\* handleSubscriptionPurchase: getDoc(userRef), the user must exist
p006_handleSubscriptionPurchase_getDoc(p) ==
  /\ At(p, "p006_checkout", "getDoc")
  /\ IF ~user.exists THEN Finish(p, "500")
     ELSE procs' = [procs EXCEPT ![p].pc = "meta", ![p].cur = user.credits]
  /\ UNCHANGED <<now, user, userVer, stripe, letterRequests, acct0>>

\* handleSubscriptionPurchase: stripe.customers.update of the metadata
p006_handleSubscriptionPurchase_meta(p) ==
  /\ At(p, "p006_checkout", "meta")
  /\ stripe' = [stripe EXCEPT !.firebaseUserId = "u1"]
  /\ Goto(p, "uud_get")
  /\ UNCHANGED <<now, user, userVer, letterRequests, acct0>>

\* the updateData of the handler at p, merged into the document u
p006_updateData(p, u) ==
  IF procs[p].op = "p006_checkout"
  THEN LET planConfig == p006_getPlanConfig(procs[p].price) IN
       [u EXCEPT
          !.planType = "premium",
          !.credits = procs[p].cur + planConfig.freeCredits,
          !.subscriptionEndDate = AddMonths(procs[p].at, planConfig.durationMonths),
          !.stripeSubscriptionId = SubOf(procs[p].price),
          !.lastCreditGrant = procs[p].at,
          !.creditSchedule = [monthlyCredits |-> planConfig.monthlyCredits,
                              remainingMonths |-> planConfig.durationMonths]]
  ELSE IF procs[p].status \in {"canceled", "unpaid", "incomplete_expired"}
  THEN [u EXCEPT !.planType = "free", !.stripeSubscriptionId = NoSub,
                 !.subscriptionEndDate = NullDate, !.creditSchedule = NoSchedule]
  ELSE IF procs[p].status = "active"
  THEN [u EXCEPT !.planType = "premium",
                 !.stripeSubscriptionId = SubOf(procs[p].price)]
  ELSE u

\* where the handler at p goes on after updateUserDocument
p006_afterUpdate(p) ==
  IF procs[p].op = "p006_checkout"
  THEN procs' = [procs EXCEPT ![p].pc = "schedule"]
  ELSE FinishWith(p, 0, now)

\* updateUserDocument, runTransaction: transaction.get(userRef); a missing
\* document throws, which the helper catches
updateUserDocument_get(p) ==
  /\ procs[p].op \in {"p006_checkout", "p006_change"}
  /\ procs[p].pc = "uud_get"
  /\ procs' = [procs EXCEPT ![p].pc = IF user.exists THEN "uud_commit" ELSE "uud_setDoc",
                            ![p].ver = userVer]
  /\ UNCHANGED <<now, user, userVer, stripe, letterRequests, acct0>>

\* updateUserDocument, runTransaction: the commit, the update function again,
\* or (rejects, or the attempts used up) the error the helper catches
updateUserDocument_commit(p, rejects) ==
  /\ procs[p].op \in {"p006_checkout", "p006_change"}
  /\ procs[p].pc = "uud_commit"
  /\ IF rejects
     THEN Goto(p, "uud_setDoc") /\ UNCHANGED <<user, userVer>>
     ELSE IF userVer = procs[p].ver
     THEN /\ user' = p006_updateData(p, user)
          /\ userVer' = userVer + 1
          /\ p006_afterUpdate(p)
     ELSE /\ procs' = [procs EXCEPT
                 ![p].pc = IF procs[p].att + 1 >= maxAttempts
                           THEN "uud_setDoc" ELSE "uud_get",
                 ![p].att = procs[p].att + 1]
          /\ UNCHANGED <<user, userVer>>
  /\ UNCHANGED <<now, stripe, letterRequests, acct0>>

\* updateUserDocument: the fallback setDoc(userRef, updateData, {merge: true})
updateUserDocument_setDoc(p, rejects) ==
  /\ procs[p].op \in {"p006_checkout", "p006_change"}
  /\ procs[p].pc = "uud_setDoc"
  /\ IF rejects
     THEN Finish(p, "500") /\ UNCHANGED <<user, userVer>>
     ELSE /\ user' = [p006_updateData(p, user) EXCEPT !.exists = TRUE]
          /\ userVer' = userVer + 1
          /\ p006_afterUpdate(p)
  /\ UNCHANGED <<now, stripe, letterRequests, acct0>>

\* scheduleMonthlyCredits: batch.commit() of the documents dist_i_<time>,
\* i = 1..months, a document of the same id being replaced; <time> is
\* distributionDate.getTime(), the millisecond of the call plus i months, and
\* no two calls run in the same millisecond (stamp tells the calls of one day
\* apart)
scheduleMonthlyCredits(p, rejects) ==
  /\ At(p, "p006_checkout", "schedule")
  /\ IF rejects
     THEN Finish(p, "500") /\ UNCHANGED user
     ELSE LET planConfig == p006_getPlanConfig(procs[p].price)
              dists == { [ i |-> i, distributionDate |-> AddMonths(now, i),
                           stamp |-> p,
                           credits |-> planConfig.monthlyCredits,
                           status |-> "pending" ] : i \in 1..planConfig.durationMonths }
              kept == { d \in user.scheduledCredits :
                          ~ \E n \in dists : /\ n.i = d.i
                                             /\ n.distributionDate = d.distributionDate
                                             /\ n.stamp = d.stamp }
          IN /\ user' = [user EXCEPT !.scheduledCredits = kept \cup dists]
             /\ Goto(p, "pp_query")
  /\ UNCHANGED <<now, userVer, stripe, letterRequests, acct0>>

\* processPendingDistributions: getDocs(pending, distributionDate <= now)
processPendingDistributions_query(p) ==
  /\ procs[p].op \in {"p006_checkout", "p006_invoice"}
  /\ procs[p].pc = "pp_query"
  /\ LET pendingSnap == { d \in user.scheduledCredits :
                            d.status = "pending" /\ d.distributionDate <= now } IN
       IF pendingSnap = {}
       THEN FinishWith(p, IF procs[p].op = "p006_invoice" THEN 0
                          ELSE p006_getPlanConfig(procs[p].price).freeCredits, now)
       ELSE procs' = [procs EXCEPT ![p].pc = "pp_getDoc",
                                   ![p].snap = pendingSnap, ![p].at = now]
  /\ UNCHANGED <<now, user, userVer, stripe, letterRequests, acct0>>

\* processPendingDistributions: getDoc(userRef) and its creditSchedule
processPendingDistributions_getDoc(p) ==
  /\ procs[p].op \in {"p006_checkout", "p006_invoice"}
  /\ procs[p].pc = "pp_getDoc"
  /\ IF ~user.exists \/ user.creditSchedule = NoSchedule
     THEN Finish(p, "500")
     ELSE procs' = [procs EXCEPT ![p].pc = "pp_commit", ![p].cur = user.credits]
  /\ UNCHANGED <<now, user, userVer, stripe, letterRequests, acct0>>

RECURSIVE SumScheduled(_)
SumScheduled(dists) ==
  IF dists = {} THEN 0
  ELSE LET d == CHOOSE x \in dists : TRUE
       IN  d.credits + SumScheduled(dists \ {d})

\* processPendingDistributions: batch.commit() marking the distributions read
\* processed and writing the credits and the schedule of the user
processPendingDistributions_commit(p, rejects) ==
  /\ procs[p].op \in {"p006_checkout", "p006_invoice"}
  /\ procs[p].pc = "pp_commit"
  /\ IF rejects \/ ~user.exists
     THEN Finish(p, "500") /\ UNCHANGED <<user, userVer>>
     ELSE /\ user' = [user EXCEPT
               !.scheduledCredits =
                  { IF \E x \in procs[p].snap :
                         /\ x.i = d.i /\ x.distributionDate = d.distributionDate
                         /\ x.stamp = d.stamp
                    THEN [d EXCEPT !.status = "processed"] ELSE d : d \in @ },
               !.credits = procs[p].cur + SumScheduled(procs[p].snap),
               !.creditSchedule.remainingMonths = @ - Cardinality(procs[p].snap),
               !.lastCreditGrant = procs[p].at]
          /\ userVer' = userVer + 1
          /\ FinishWith(p, SumScheduled(procs[p].snap), procs[p].at)
  /\ UNCHANGED <<now, stripe, letterRequests, acct0>>

\* POST: invoice.payment_succeeded; handleInvoicePaymentSucceeded retrieves
\* the subscription, finds the user and processes the pending distributions
p006_DeliverInvoice(p) ==
  /\ CanStart(p)
  /\ procs' = [procs EXCEPT ![p] =
       [IdleProc EXCEPT !.op = "p006_invoice", !.pc = "customer",
                        !.price = stripe.priceId]]
  /\ UNCHANGED <<now, user, userVer, stripe, letterRequests, acct0>>

\* POST: customer.subscription.updated or .deleted
p006_DeliverSubscriptionChange(p, st) ==
  /\ CanStart(p)
  /\ procs' = [procs EXCEPT ![p] =
       [IdleProc EXCEPT !.op = "p006_change", !.pc = "customer",
                        !.price = stripe.priceId, !.status = st]]
  /\ UNCHANGED <<now, user, userVer, stripe, letterRequests, acct0>>

\* handleSubscriptionChange: the pending distributions are canceled (getDocs
\* and batch.commit())
p006_handleSubscriptionChange_cancel(p) ==
  /\ At(p, "p006_change", "cancel")
  /\ user' = [user EXCEPT !.scheduledCredits =
        { IF d.status = "pending" THEN [d EXCEPT !.status = "canceled"] ELSE d :
            d \in @ }]
  /\ Goto(p, "uud_get")
  /\ UNCHANGED <<now, userVer, stripe, letterRequests, acct0>>

-----------------------------------------------------------------------------
(* The webhook with scheduled distributions on one account *)

InitSchedule ==
  /\ user = NewUser(0)
  /\ InitStripe({"price_monthly", "price_unknown"})
  /\ InitStore

NextSchedule ==
  \/ Tick(31)
  \/ \E p \in Procs : p006_DeliverCheckout(p)
  \/ \E p \in Procs : p006_handleSubscriptionPurchase_retrieve(p)
  \/ \E p \in Procs : p006_handleSubscriptionPurchase_getDoc(p)
  \/ \E p \in Procs : p006_handleSubscriptionPurchase_meta(p)
  \/ \E p \in Procs : updateUserDocument_get(p)
  \/ \E p \in Procs, rejects \in BOOLEAN : updateUserDocument_commit(p, rejects)
  \/ \E p \in Procs, rejects \in BOOLEAN : updateUserDocument_setDoc(p, rejects)
  \/ \E p \in Procs, rejects \in BOOLEAN : scheduleMonthlyCredits(p, rejects)
  \/ \E p \in Procs : processPendingDistributions_query(p)
  \/ \E p \in Procs : processPendingDistributions_getDoc(p)
  \/ \E p \in Procs, rejects \in BOOLEAN : processPendingDistributions_commit(p, rejects)

SpecSchedule == InitSchedule /\ [][NextSchedule]_vars

\* C9: when the processing of a checkout event has failed, at whatever step,
\* and nothing else ran, no partial state is left: the upgrade of the user
\* document (plan, initial credits, creditSchedule) and the scheduledCredits
\* documents are all there or none is, and with none the document is as before.
C9_AllOrNothing ==
  ( /\ Started = {1} /\ Done(1)
    /\ procs[1].op = "p006_checkout" /\ procs[1].res = "500" )
  => /\ (user.creditSchedule # NoSchedule) <=> (user.scheduledCredits # {})
     /\ (user.creditSchedule = NoSchedule) => user = acct0

-----------------------------------------------------------------------------
(* The webhook that merges the subscription into the user document *)

INITIAL_FREE_CREDITS == 5

\* POST: checkout.session.completed with a subscription and metadata.userId
p004_DeliverCheckout(p) ==
  /\ CanStart(p)
  /\ procs' = [procs EXCEPT ![p] =
       [IdleProc EXCEPT !.op = "p004_checkout", !.pc = "retrieve"]]
  /\ UNCHANGED <<now, user, userVer, stripe, letterRequests, acct0>>

\* handleCheckoutCompleted: stripe.subscriptions.retrieve and getPlanConfig
p004_handleCheckoutCompleted_retrieve(p) ==
  /\ At(p, "p004_checkout", "retrieve")
  /\ IF p005_getPlanConfig(stripe.priceId) = 0
     THEN Finish(p, "500")
     ELSE procs' = [procs EXCEPT ![p].pc = "getDoc", ![p].price = stripe.priceId]
  /\ UNCHANGED <<now, user, userVer, stripe, letterRequests, acct0>>

\* handleCheckoutCompleted: getDoc(userRef); a missing user counts 0 credits
p004_handleCheckoutCompleted_getDoc(p) ==
  /\ At(p, "p004_checkout", "getDoc")
  /\ procs' = [procs EXCEPT ![p].pc = "setDoc",
                            ![p].cur = IF user.exists THEN user.credits ELSE 0]
  /\ UNCHANGED <<now, user, userVer, stripe, letterRequests, acct0>>

\* handleCheckoutCompleted: setDoc(userRef, {...}, {merge: true})
p004_handleCheckoutCompleted_setDoc(p) ==
  /\ At(p, "p004_checkout", "setDoc")
  /\ user' = [user EXCEPT
        !.exists = TRUE,
        !.planType = "premium",
        !.credits = procs[p].cur + INITIAL_FREE_CREDITS,
        !.stripeSubscriptionId = SubOf(procs[p].price),
        !.subscriptionStart = now,
        !.lastMonthlyCredit = now,
        !.creditHistory = arrayUnion(@,
            [date |-> now, credits |-> INITIAL_FREE_CREDITS, type |-> "initial"])]
  /\ userVer' = userVer + 1
  /\ FinishWith(p, INITIAL_FREE_CREDITS, now)
  /\ UNCHANGED <<now, stripe, letterRequests, acct0>>

-----------------------------------------------------------------------------
(* Webhook events for a user id with or without a user document *)

InitAccount ==
  /\ user \in {NoUser, NewUser(0)}
  /\ InitStripe({"price_monthly", "price_unknown"})
  /\ InitStore

NextAccount ==
  \/ \E p \in Procs : p004_DeliverCheckout(p)
  \/ \E p \in Procs : p004_handleCheckoutCompleted_retrieve(p)
  \/ \E p \in Procs : p004_handleCheckoutCompleted_getDoc(p)
  \/ \E p \in Procs : p004_handleCheckoutCompleted_setDoc(p)
  \/ \E p \in Procs, st \in SubscriptionStatuses : p006_DeliverSubscriptionChange(p, st)
  \/ \E p \in Procs : getUserIdFromSubscription_customer(p)
  \/ \E p \in Procs : getUserIdFromSubscription_query(p)
  \/ \E p \in Procs : getUserIdFromSubscription_meta(p)
  \/ \E p \in Procs : p006_handleSubscriptionChange_cancel(p)
  \/ \E p \in Procs : updateUserDocument_get(p)
  \/ \E p \in Procs, rejects \in BOOLEAN : updateUserDocument_commit(p, rejects)
  \/ \E p \in Procs, rejects \in BOOLEAN : updateUserDocument_setDoc(p, rejects)

SpecAccount == InitAccount /\ [][NextAccount]_vars

\* C10: the webhook handlers create no account: when the user id of the
\* checkout and subscription events has no user document, every event that has
\* been processed ended in an error and the store still has no such document.
C10_NoAccountCreated ==
  ~acct0.exists =>
    /\ ~user.exists
    /\ \A p \in Procs : Done(p) => procs[p].res = "500"

-----------------------------------------------------------------------------
(* The webhook of app/api/webhook/stripe/route.ts: plans and transitions *)

\* the handler at p processes a subscription checkout or a renewal whose price
\* is not in the plan configuration
UnknownPriceEvent(p) ==
  /\ procs[p].op \in {"checkout", "invoice"}
  /\ procs[p].status # "payment"
  /\ procs[p].price \notin Prices

\* C11: a subscription checkout or a renewal whose price id is not in the plan
\* configuration is a hard failure: no step of its handler changes the user
\* document (credits, planType, subscription fields; no default amount), and
\* the webhook answers with an error status.
C11_UnknownPriceRejected ==
  [][ \A p \in Procs :
        (UnknownPriceEvent(p) /\ procs'[p] # procs[p]) =>
          /\ user' = user
          /\ procs'[p].pc = "done" => procs'[p].res \in {"400", "500"} ]_vars

\* a checkout and a renewal of an unknown price have both been answered
C11_Witness ==
  \E p, q \in Procs :
    /\ UnknownPriceEvent(p) /\ procs[p].op = "checkout" /\ procs[p].res = "500"
    /\ UnknownPriceEvent(q) /\ procs[q].op = "invoice" /\ procs[q].res = "500"
    /\ user.exists

\* the amounts, in cents, of the credit packages handleCreditsPurchase knows
PackageAmounts == {500, 2000}

\* C12: a one-time credit purchase whose paid amount matches no defined credit
\* package is rejected (InvalidPackage, an error status) and adds no credits.
C12_InvalidPackageRejected ==
  \A p \in Procs :
    ( /\ procs[p].op = "checkout" /\ procs[p].status = "payment"
      /\ procs[p].amount \notin PackageAmounts
      /\ Done(p) )
    => procs[p].res \in {"400", "500"} /\ procs[p].delta = 0

\* the monthly credit amount of every catalog plan: 5 free + 20 bonus
MonthlyPlanCredits == 25

\* C13: the subscription checkout of a free account, for every catalog plan
\* (1, 6 or 12 months): when it has been processed and nothing else ran, the
\* balance has risen by one monthly amount (25, not the multi-month total),
\* planType is premium, subscriptionEndDate is now plus the plan's duration and
\* the last-grant date is now.
C13_InitialGrantIsMonthly ==
  ( /\ Started = {1} /\ Done(1)
    /\ procs[1].op = "checkout" /\ procs[1].status = "subscription"
    /\ procs[1].res = "ok"
    /\ acct0.planType = "free" )
  => /\ user.credits = acct0.credits + MonthlyPlanCredits
     /\ user.planType = "premium"
     /\ user.subscriptionEndDate =
          AddMonths(procs[1].at, getPlanConfig(procs[1].price).durationMonths)
     /\ user.lastCreditGrant = procs[1].at

-----------------------------------------------------------------------------
(* The webhook of app/api/webhook/stripe/route.ts on one premium account *)

\* to the end of the first month, or ten days past it (a late payment)
PlanTicks == {31, 41}

InitPlan ==
  /\ InitStripe({"price_monthly", "price_semiannual"})
  /\ user = PremiumUser(stripe.priceId, FALSE)
  /\ InitStore

NextPlan ==
  \/ \E d \in PlanTicks : Tick(d)
  \/ \E p \in Procs : DeliverInvoice(p)
  \/ \E p \in Procs : handleSubscriptionRenewal_customer(p)
  \/ \E p \in Procs : handleSubscriptionRenewal_query(p)
  \/ \E p \in Procs : handleSubscriptionRenewal_meta(p)
  \/ \E p \in Procs : handleSubscriptionRenewal_read(p)
  \/ \E p \in Procs : handleSubscriptionRenewal_write(p)
  \/ \E p \in Procs, st \in SubscriptionStatuses : DeliverSubscriptionChange(p, st)
  \/ \E p \in Procs : handleSubscriptionChange_customer(p)
  \/ \E p \in Procs : handleSubscriptionChange_query(p)
  \/ \E p \in Procs : handleSubscriptionChange_write(p)

SpecPlan == InitPlan /\ [][NextPlan]_vars

CancelStatuses == {"canceled", "unpaid", "incomplete_expired"}

\* C14: a subscription event with status canceled, unpaid or incomplete_expired
\* for a premium account: the write of handleSubscriptionChange sets planType
\* to free and clears stripeSubscriptionId and subscriptionEndDate, leaves the
\* credits as they are, and the event is answered 200.
C14_CancellationKeepsCredits ==
  [][ \A p \in Procs :
        ( /\ At(p, "subscription", "hsc_write")
          /\ procs[p].status \in CancelStatuses
          /\ user.planType = "premium"
          /\ procs'[p] # procs[p] )
        => /\ user'.planType = "free"
           /\ user'.stripeSubscriptionId = NoSub
           /\ user'.subscriptionEndDate = NullDate
           /\ user'.credits = user.credits
           /\ procs'[p].pc = "done" /\ procs'[p].res = "ok" ]_vars

\* a premium account with credits has been downgraded by a cancellation
C14_Witness ==
  /\ \E p \in Procs : /\ procs[p].op = "subscription" /\ Done(p)
                      /\ procs[p].status \in CancelStatuses /\ procs[p].res = "ok"
  /\ Started = {1}
  /\ acct0.planType = "premium" /\ acct0.credits > 0
  /\ user.planType = "free" /\ user.credits = acct0.credits

\* C15: over every sequence of webhook events (checkout, renewal, subscription
\* updated or deleted), an account whose planType is premium has its
\* subscriptionEndDate set.
C15_PremiumHasEndDate ==
  (user.exists /\ user.planType = "premium") => user.subscriptionEndDate # NullDate

\* C16: renewal grants go to premium accounts only: once a cancellation has
\* downgraded the account to free, the handler of an invoice.payment_succeeded
\* event that arrived after the cancellation event and read the account on a
\* later day (the end date it computed is that of a later day) adds no credits
\* and sets no subscriptionEndDate.
C16_NoRenewalAfterCancellation ==
  [][ \A p \in Procs :
        ( /\ At(p, "invoice", "hsr_write")
          /\ procs'[p] # procs[p]
          /\ \E q \in 1..(p - 1) :
               /\ procs[q].op = "subscription" /\ Done(q)
               /\ procs[q].status \in CancelStatuses
               /\ procs[p].at > AddMonths(procs[q].at,
                                   getPlanConfig(procs[p].price).durationMonths)
          /\ acct0.planType = "premium"
          /\ user.planType = "free" )
        => /\ user'.credits = user.credits
           /\ user'.subscriptionEndDate = user.subscriptionEndDate ]_vars

\* C17: when the renewal handler of an invoice.payment_succeeded event writes
\* to a premium account whose billing period has ended (the handler read the
\* account on the day of the write), the new subscriptionEndDate is the
\* previous subscriptionEndDate extended by the plan's billing period.
C17_RenewalExtendsEndDate ==
  [][ \A p \in Procs :
        ( /\ At(p, "invoice", "hsr_write")
          /\ procs'[p] # procs[p]
          /\ user.planType = "premium"
          /\ user.subscriptionEndDate # NullDate
          /\ now >= user.subscriptionEndDate
          /\ procs[p].at =
               AddMonths(now, getPlanConfig(procs[p].price).durationMonths) )
        => user'.subscriptionEndDate =
             AddMonths(user.subscriptionEndDate,
                       getPlanConfig(procs[p].price).durationMonths) ]_vars

-----------------------------------------------------------------------------
(* The webhook with the credit history: subscription changes and the date of
   the next monthly credits *)

\* POST: customer.subscription.updated / customer.subscription.deleted
p005_DeliverSubscriptionChange(p, st) ==
  /\ CanStart(p)
  /\ procs' = [procs EXCEPT ![p] =
       [IdleProc EXCEPT !.op = "p005_change", !.pc = "customer",
                        !.price = stripe.priceId, !.status = st]]
  /\ UNCHANGED <<now, user, userVer, stripe, letterRequests, acct0>>

\* handleSubscriptionChange: updateDoc(userRef, ...) of a cancellation or of
\* an activation (current_period_end is the end of the period that starts
\* now); updateDoc throws on a missing document; other statuses write nothing
p005_handleSubscriptionChange_updateDoc(p) ==
  /\ At(p, "p005_change", "write")
  /\ IF procs[p].status \notin {"canceled", "unpaid", "active"}
     THEN Finish(p, "ok") /\ UNCHANGED <<user, userVer>>
     ELSE IF ~user.exists
     THEN Finish(p, "500") /\ UNCHANGED <<user, userVer>>
     ELSE IF procs[p].status = "active"
     THEN /\ user' = [user EXCEPT
                !.planType = "premium",
                !.stripeSubscriptionId = SubOf(procs[p].price),
                !.subscriptionEndDate =
                    AddMonths(now, p005_getPlanConfig(procs[p].price))]
          /\ userVer' = userVer + 1
          /\ Goto(p, "cmc_get")
     ELSE /\ user' = [user EXCEPT
                !.planType = "free",
                !.stripeSubscriptionId = NoSub,
                !.nextCreditDate = NullDate,
                !.subscriptionEndDate = NullDate]
          /\ userVer' = userVer + 1
          /\ Finish(p, "ok")
  /\ UNCHANGED <<now, stripe, letterRequests, acct0>>

\* checkMonthlyCredits: what the update function writes on day t
p005_checkMonthlyCreditsUpdate(u, t) ==
  IF u.planType # "premium" THEN u
  ELSE IF u.subscriptionEndDate # NullDate /\ t >= u.subscriptionEndDate THEN u
  ELSE IF u.lastMonthlyCredit = NullDate
  THEN [u EXCEPT !.lastMonthlyCredit = t, !.nextCreditDate = getNextCreditDate(t)]
  ELSE IF u.nextCreditDate = NullDate \/ t >= u.nextCreditDate
  THEN [u EXCEPT !.credits = @ + MONTHLY_CREDITS,
                 !.lastMonthlyCredit = t,
                 !.nextCreditDate = getNextCreditDate(t),
                 !.creditHistory = arrayUnion(@,
                     [date |-> t, credits |-> MONTHLY_CREDITS, type |-> "monthly"])]
  ELSE u

p005_checkMonthlyCredits_get(p) ==
  /\ procs[p].op = "p005_change"
  /\ RunTransaction_get(p, "cmc_get", "cmc_commit")

p005_checkMonthlyCredits_commit(p) ==
  /\ procs[p].op = "p005_change"
  /\ RunTransaction_commit(p, "cmc_get", "cmc_commit",
      p005_checkMonthlyCreditsUpdate(user, procs[p].at))

P005Statuses == {"active", "canceled", "unpaid", "past_due"}

NextCreditTicks == {30, 31}

InitNextCredit ==
  /\ InitStripe({"price_monthly"})
  /\ user \in {NewUser(0), p005_checkoutUpdate(NewUser(0), 0, stripe.priceId)}
  /\ InitStore

NextNextCredit ==
  \/ \E d \in NextCreditTicks : Tick(d)
  \/ \E p \in Procs : p005_DeliverCheckout(p, 0)
  \/ \E p \in Procs : p005_handleCheckoutCompleted_retrieve(p)
  \/ \E p \in Procs : p005_handleCheckoutCompleted_get(p)
  \/ \E p \in Procs : p005_handleCheckoutCompleted_commit(p)
  \/ \E p \in Procs : p005_DeliverInvoice(p)
  \/ \E p \in Procs, st \in P005Statuses : p005_DeliverSubscriptionChange(p, st)
  \/ \E p \in Procs : getUserIdFromSubscription_customer(p)
  \/ \E p \in Procs : getUserIdFromSubscription_query(p)
  \/ \E p \in Procs : getUserIdFromSubscription_meta(p)
  \/ \E p \in Procs : p005_handleInvoicePaid_get(p)
  \/ \E p \in Procs : p005_handleInvoicePaid_commit(p)
  \/ \E p \in Procs : p005_handleSubscriptionChange_updateDoc(p)
  \/ \E p \in Procs : p005_checkMonthlyCredits_get(p)
  \/ \E p \in Procs : p005_checkMonthlyCredits_commit(p)

SpecNextCredit == InitNextCredit /\ [][NextNextCredit]_vars

-----------------------------------------------------------------------------
(* app/api/users/check-credits/route.ts *)

\* Date.getFullYear() and Date.getMonth() of a day number
YearOf(d) == d \div 365
MonthIndexOf(d) == MonthOf(d % 365) - 1

getMonthsDifference(startDate, endDate) ==
  ((YearOf(endDate) - YearOf(startDate)) * 12)
    + (MonthIndexOf(endDate) - MonthIndexOf(startDate))

\* arrayUnion(...entries): the entries the array does not hold yet are added
arrayUnionAll(history, entries) ==
  history \o SelectSeq(entries,
      LAMBDA e : \A k \in 1..Len(history) : history[k] # e)

\* loadMissedMonthlyCredits: what the update function writes on day t
loadMissedMonthlyCreditsUpdate(u, t) ==
  IF u.planType # "premium" THEN u
  ELSE
    LET subscriptionStart == u.subscriptionStart
        lastMonthlyCredit ==
          IF u.lastMonthlyCredit # NullDate THEN u.lastMonthlyCredit
          ELSE subscriptionStart
    IN IF subscriptionStart = NullDate \/ lastMonthlyCredit = NullDate THEN u
       ELSE
         LET monthsSinceLastCredit == getMonthsDifference(lastMonthlyCredit, t)
         IN IF monthsSinceLastCredit > 0
            THEN [u EXCEPT
                   !.credits = @ + (monthsSinceLastCredit * MONTHLY_CREDITS),
                   !.lastMonthlyCredit = t,
                   !.nextCreditDate = getNextCreditDate(t),
                   !.creditHistory = arrayUnionAll(@,
                       [i \in 1..monthsSinceLastCredit |->
                          [date |-> AddMonths(lastMonthlyCredit, i),
                           credits |-> MONTHLY_CREDITS,
                           type |-> "monthly_backfill"]])]
            ELSE u

\* POST: a login asks for the missed monthly credits
loadMissedMonthlyCredits(p) ==
  /\ CanStart(p)
  /\ procs' = [procs EXCEPT ![p] =
       [IdleProc EXCEPT !.op = "loadMissed", !.pc = "tx_get"]]
  /\ UNCHANGED <<now, user, userVer, stripe, letterRequests, acct0>>

loadMissedMonthlyCredits_get(p) ==
  /\ procs[p].op = "loadMissed"
  /\ RunTransaction_get(p, "tx_get", "tx_commit")

loadMissedMonthlyCredits_commit(p) ==
  /\ procs[p].op = "loadMissed"
  /\ RunTransaction_commit(p, "tx_get", "tx_commit",
      loadMissedMonthlyCreditsUpdate(user, procs[p].at))

-----------------------------------------------------------------------------
(* The monthly credits of a login after idle days *)

MaxIdle == 95

IdleDays == {25, 35}

\* the account is not used for d days: no request is in flight
DaysPass(d) ==
  /\ Quiet
  /\ now + d <= MaxIdle
  /\ now' = now + d
  /\ UNCHANGED <<user, userVer, stripe, letterRequests, procs, acct0>>

InitCatchUp ==
  /\ InitStripe({"price_monthly", "price_annual"})
  /\ user \in {NewUser(0), p005_checkoutUpdate(NewUser(0), 0, stripe.priceId)}
  /\ InitStore

NextCatchUp ==
  \/ \E d \in IdleDays : DaysPass(d)
  \/ \E p \in Procs : loadMissedMonthlyCredits(p)
  \/ \E p \in Procs : loadMissedMonthlyCredits_get(p)
  \/ \E p \in Procs : loadMissedMonthlyCredits_commit(p)
  \/ \E p \in Procs : checkCredits(p)
  \/ \E p \in Procs : checkCredits_get(p)
  \/ \E p \in Procs : checkCredits_commit(p)
  \/ \E p \in Procs : p005_DeliverSubscriptionChange(p, "canceled")
  \/ \E p \in Procs : getUserIdFromSubscription_customer(p)
  \/ \E p \in Procs : getUserIdFromSubscription_query(p)
  \/ \E p \in Procs : getUserIdFromSubscription_meta(p)
  \/ \E p \in Procs : p005_handleSubscriptionChange_updateDoc(p)

SpecCatchUp == InitCatchUp /\ [][NextCatchUp]_vars

\* C19: a run of loadMissedMonthlyCredits that commits for a premium account
\* with a last monthly credit issues max(0, floor((now - lastMonthlyCredit) /
\* 30)) grants of MONTHLY_CREDITS, now being the day the run read the account.
C19_GrantsPerThirtyDays ==
  [][ \A p \in Procs :
        ( /\ procs[p].op = "loadMissed" /\ procs[p].pc = "tx_commit"
          /\ procs'[p].pc = "done" /\ procs'[p].res = "ok"
          /\ user.planType = "premium"
          /\ user.lastMonthlyCredit # NullDate )
        => procs'[p].delta =
             MONTHLY_CREDITS *
               (IF procs[p].at > user.lastMonthlyCredit
                THEN (procs[p].at - user.lastMonthlyCredit) \div 30 ELSE 0) ]_vars

\* C20: a run of either check-credits route that issues grants moves
\* lastMonthlyCredit forward by 30 days for each grant it issued.
C20_LastGrantAdvancesByGrants ==
  [][ \A p \in Procs :
        ( /\ procs[p].op \in {"loadMissed", "checkCredits"}
          /\ procs'[p].pc = "done" /\ procs[p].pc # "done"
          /\ procs'[p].res = "ok" /\ procs'[p].delta > 0
          /\ user.lastMonthlyCredit # NullDate )
        => user'.lastMonthlyCredit =
             AddDays(user.lastMonthlyCredit,
                     30 * (procs'[p].delta \div MONTHLY_CREDITS)) ]_vars

\* C21: when the POST of check-credits commits for a premium account whose
\* subscriptionEndDate is before the day of the call, it adds no credits and
\* leaves the account on the free plan.
C21_ExpiredDowngradedNotGranted ==
  [][ \A p \in Procs :
        ( /\ At(p, "checkCredits", "cc_commit")
          /\ procs'[p].pc = "done" /\ procs'[p].res = "ok"
          /\ user.planType = "premium"
          /\ user.subscriptionEndDate # NullDate
          /\ user.subscriptionEndDate < procs[p].at )
        => /\ user'.credits = user.credits
           /\ user'.planType = "free" ]_vars

\* C22: the sweep of cron/allocate-credits that selects a premium account
\* whose subscriptionEndDate is before now goes to the downgrade, and the
\* downgrade sets planType to free, clears stripeSubscriptionId,
\* subscriptionEndDate, nextCreditAllocationDate and subscriptionPlan, leaves
\* every other field (credits among them) as it was and ends the run for the
\* account without a grant.
C22_SweepDowngradesExpired ==
  [][ \A p \in Procs :
        /\ ( /\ Idle(p) /\ procs'[p].op = "cronAllocate"
             /\ user.exists /\ user.planType = "premium"
             /\ user.nextCreditAllocationDate # NullDate
             /\ user.nextCreditAllocationDate <= now
             /\ user.subscriptionEndDate # NullDate
             /\ user.subscriptionEndDate < now )
           => (procs'[p].pc = "ca_downgrade" /\ user' = user)
        /\ ( At(p, "cronAllocate", "ca_downgrade") /\ procs'[p] # procs[p] )
           => /\ user' = [user EXCEPT !.planType = "free",
                                      !.stripeSubscriptionId = NoSub,
                                      !.subscriptionEndDate = NullDate,
                                      !.nextCreditAllocationDate = NullDate,
                                      !.subscriptionPlan = FALSE]
              /\ procs'[p].pc = "done" /\ procs'[p].delta = 0 ]_vars

\* C22: a sweep has downgraded the expired account, which keeps the credits
\* it had.
C22_Witness ==
  /\ \E p \in Procs :
       /\ procs[p].op = "cronAllocate" /\ Done(p)
       /\ procs[p].res = "ok" /\ procs[p].delta = 0
  /\ Started = {1}
  /\ acct0.planType = "premium" /\ acct0.credits > 0
  /\ user.planType = "free" /\ user.subscriptionEndDate = NullDate
  /\ user.credits = acct0.credits

\* C23: no step of the POST of check-credits or of users/check-credits changes
\* the document of an account whose planType is not premium, and the call
\* ends with success and no credits added.
C23_NotPremiumUnchanged ==
  [][ \A p \in Procs :
        ( /\ procs[p].op \in {"checkCredits", "loadMissed"}
          /\ procs'[p] # procs[p]
          /\ user.exists /\ user.planType # "premium" )
        => /\ user' = user
           /\ procs'[p].pc = "done" =>
                (procs'[p].res = "ok" /\ procs'[p].delta = 0) ]_vars

\* C23: after the cancellation of the subscription both routes were called,
\* on day 35 or later, and the account is as the cancellation left it.
C23_Witness ==
  /\ procs[1].op = "p005_change" /\ Done(1) /\ procs[1].res = "ok"
  /\ \E p, q \in Procs :
       /\ procs[p].op = "checkCredits" /\ procs[q].op = "loadMissed"
       /\ Done(p) /\ Done(q)
       /\ procs[p].res = "ok" /\ procs[q].res = "ok"
       /\ procs[p].at >= 35 /\ procs[q].at >= 35
  /\ acct0.planType = "premium"
  /\ user = [acct0 EXCEPT !.planType = "free", !.stripeSubscriptionId = NoSub,
                          !.nextCreditDate = NullDate,
                          !.subscriptionEndDate = NullDate]

-----------------------------------------------------------------------------
(* utils/credits.ts: performActionWithCredits *)

\* performActionWithCredits(userId, creditCost, action) is called
performActionWithCredits(p, creditCost) ==
  /\ CanStart(p)
  /\ procs' = [procs EXCEPT ![p] =
       [IdleProc EXCEPT !.op = "perform", !.pc = "has", !.amount = creditCost]]
  /\ UNCHANGED <<now, user, userVer, stripe, letterRequests, acct0>>

\* await hasEnoughCredits(userId, creditCost)
performActionWithCredits_hasEnoughCredits(p) ==
  /\ At(p, "perform", "has")
  /\ IF ~user.exists \/ user.credits < procs[p].amount
     THEN Finish(p, "insufficient")
     ELSE Goto(p, "dc_get")
  /\ UNCHANGED <<now, user, userVer, stripe, letterRequests, acct0>>

\* await debitCredits(userId, creditCost): getUserCredits and the test
performActionWithCredits_getUserCredits(p) ==
  /\ At(p, "perform", "dc_get")
  /\ IF ~user.exists \/ user.credits < procs[p].amount
     THEN Finish(p, "debit_failed")
     ELSE Goto(p, "dc_update")
  /\ UNCHANGED <<now, user, userVer, stripe, letterRequests, acct0>>

\* a caller that goes on to the action whatever debitCredits has answered
performActionWithCredits_debit_unchecked(p, rejects) ==
  /\ At(p, "perform", "dc_update")
  /\ IF user.exists /\ ~rejects
     THEN /\ user' = [user EXCEPT !.credits = @ - procs[p].amount]
          /\ userVer' = userVer + 1
          /\ procs' = [procs EXCEPT ![p].pc = "action",
                                    ![p].delta = 0 - procs[p].amount]
     ELSE /\ Goto(p, "action")
          /\ UNCHANGED <<user, userVer>>
  /\ UNCHANGED <<now, stripe, letterRequests, acct0>>

\* await debitCredits(userId, creditCost): updateDoc with increment(-amount);
\* debitCredits answers false when the store rejects the write
performActionWithCredits_debit(p, rejects) ==
  /\ At(p, "perform", "dc_update")
  /\ IF user.exists /\ ~rejects
     THEN /\ user' = [user EXCEPT !.credits = @ - procs[p].amount]
          /\ userVer' = userVer + 1
          /\ procs' = [procs EXCEPT ![p].pc = "action",
                                    ![p].delta = 0 - procs[p].amount]
     ELSE /\ Finish(p, "debit_failed")
          /\ UNCHANGED <<user, userVer>>
  /\ UNCHANGED <<now, stripe, letterRequests, acct0>>

\* await action(): it returns or it throws
performActionWithCredits_action(p, throws) ==
  /\ At(p, "perform", "action")
  /\ IF throws THEN Goto(p, "refund")
     ELSE procs' = [procs EXCEPT ![p].pc = "done", ![p].res = "ok",
                                 ![p].at = now]
  /\ UNCHANGED <<now, user, userVer, stripe, letterRequests, acct0>>

\* await addCredits(userId, creditCost): updateDoc with increment(amount);
\* addCredits catches a rejected write and answers false, which the caller
\* does not look at before it throws actionError
addCredits(p, rejects) ==
  /\ At(p, "perform", "refund")
  /\ IF user.exists /\ ~rejects
     THEN /\ user' = [user EXCEPT !.credits = @ + procs[p].amount]
          /\ userVer' = userVer + 1
          /\ procs' = [procs EXCEPT ![p].pc = "done", ![p].res = "error",
                                    ![p].delta = 0]
     ELSE /\ Finish(p, "error")
          /\ UNCHANGED <<user, userVer>>
  /\ UNCHANGED <<now, stripe, letterRequests, acct0>>

NextPerform ==
  \/ \E p \in Procs, creditCost \in DebitAmounts : performActionWithCredits(p, creditCost)
  \/ \E p \in Procs : performActionWithCredits_hasEnoughCredits(p)
  \/ \E p \in Procs : performActionWithCredits_getUserCredits(p)
  \/ \E p \in Procs, rejects \in BOOLEAN : performActionWithCredits_debit(p, rejects)
  \/ \E p \in Procs, throws \in BOOLEAN : performActionWithCredits_action(p, throws)
  \/ \E p \in Procs, rejects \in BOOLEAN : addCredits(p, rejects)

SpecPerform == InitCredits /\ [][NextPerform]_vars

\* C24: when the only call of performActionWithCredits has returned after its
\* action threw, the balance is the balance before the call.
C24_RefundRestoresBalance ==
  \A p \in Procs :
    ( /\ Started = {p}
      /\ procs[p].op = "perform" /\ Done(p) /\ procs[p].res = "error" )
    => user.credits = acct0.credits

-----------------------------------------------------------------------------
(* The two spend functions, debitCredits of utils/credits.ts and deductCredits
   of utils/creditSystem.ts, on one account *)

NextSpend ==
  \/ \E p \in Procs, amount \in DebitAmounts : debitCredits(p, amount)
  \/ \E p \in Procs : debitCredits_getUserCredits(p)
  \/ \E p \in Procs : debitCredits_updateDoc(p)
  \/ \E p \in Procs, amount \in DebitAmounts : creditSystemCall(p, "deduct", amount)
  \/ \E p \in Procs : deductCredits_getUserCreditInfo(p)
  \/ \E p \in Procs : deductCredits_updateDoc(p)

SpecSpend == InitCredits /\ [][NextSpend]_vars

\* C25: a call of debitCredits or deductCredits that reads a balance lower
\* than its amount returns false at once, and the account (credits and
\* creditHistory among its fields) is as it was.
C25_InsufficientRejected ==
  [][ \A p \in Procs :
        ( /\ At(p, "debit", "dc_get") \/ At(p, "deduct", "cs_get")
          /\ procs'[p] # procs[p]
          /\ user.exists /\ user.credits < procs[p].amount )
        => /\ user' = user
           /\ procs'[p].pc = "done" /\ procs'[p].res = "false" ]_vars

\* C25: on an account of one credit a debitCredits of 2 and a deductCredits of
\* 2 have returned false, and the account is as it was.
C25_Witness ==
  /\ acct0.exists /\ acct0.credits = 1 /\ user = acct0
  /\ \E p, q \in Procs :
       /\ procs[p].op = "debit" /\ procs[q].op = "deduct"
       /\ procs[p].amount = 2 /\ procs[q].amount = 2
       /\ Done(p) /\ Done(q)
       /\ procs[p].res = "false" /\ procs[q].res = "false"

\* C26: when the transaction of updateUserDocument has failed, the helper
\* ends with an error and the user document is not written.
C26_FailedUpdateSurfaced ==
  [][ \A p \in Procs :
        ( /\ procs[p].op \in {"p006_checkout", "p006_change"}
          /\ procs[p].pc = "uud_setDoc"
          /\ procs'[p] # procs[p] )
        => /\ user' = user
           /\ procs'[p].pc = "done" /\ procs'[p].res = "500" ]_vars

-----------------------------------------------------------------------------
(* The webhook with the credit history: an invoice.payment_succeeded event
   and its redeliveries *)

\* POST: an invoice.payment_succeeded event that was delivered before is
\* delivered again; the handler reads nothing that identifies the event
p005_RedeliverInvoice(p) ==
  /\ CanStart(p)
  /\ \E q \in Procs : procs[q].op = "p005_invoice"
  /\ procs' = [procs EXCEPT ![p] =
       [IdleProc EXCEPT !.op = "p005_invoice", !.pc = "customer",
                        !.price = stripe.priceId, !.sid = "redelivered"]]
  /\ UNCHANGED <<now, user, userVer, stripe, letterRequests, acct0>>

InitRedeliver ==
  /\ InitStripe({"price_monthly"})
  /\ user = p005_checkoutUpdate(NewUser(0), 0, stripe.priceId)
  /\ InitStore

NextRedeliver ==
  \/ DaysPass(30)
  \/ \E p \in Procs : p005_DeliverInvoice(p)
  \/ \E p \in Procs : p005_RedeliverInvoice(p)
  \/ \E p \in Procs : getUserIdFromSubscription_customer(p)
  \/ \E p \in Procs : getUserIdFromSubscription_query(p)
  \/ \E p \in Procs : getUserIdFromSubscription_meta(p)
  \/ \E p \in Procs : p005_handleInvoicePaid_get(p)
  \/ \E p \in Procs : p005_handleInvoicePaid_commit(p)

SpecRedeliver == InitRedeliver /\ [][NextRedeliver]_vars

\* C27: when one invoice.payment_succeeded event was delivered, once or more
\* often, at most one delivery has added the monthly credits and the history
\* holds at most one monthly entry.
C27_OneGrantPerInvoiceEvent ==
  LET deliveries == {p \in Procs : procs[p].op = "p005_invoice"} IN
    Cardinality({p \in deliveries : procs[p].sid # "redelivered"}) = 1
    => /\ Cardinality({p \in deliveries :
                         Done(p) /\ procs[p].res = "ok" /\ procs[p].delta > 0}) <= 1
       /\ Cardinality({k \in 1..Len(user.creditHistory) :
                         user.creditHistory[k].type = "monthly"}) <= 1

\* C28: any two entries of type "monthly" in the creditHistory of the account
\* are dated at least 30 days apart.
C28_MonthlyGrantsThirtyDaysApart ==
  \A k, l \in 1..Len(user.creditHistory) :
    ( /\ k < l
      /\ user.creditHistory[k].type = "monthly"
      /\ user.creditHistory[l].type = "monthly" )
    => user.creditHistory[l].date - user.creditHistory[k].date >= 30

-----------------------------------------------------------------------------
(* The admin page: the fulfilment of one letterRequests document.  A process
   is an admin page that has loaded its list of requests and runs one handler
   on the request as its list holds it. *)

\* the request of the list that the handler at p was called with
RequestOf(p) == CHOOSE r \in procs[p].snap : TRUE

\* loadPendingRequests: the requests of status pending or processing
loadPendingRequests(p) ==
  /\ CanStart(p)
  /\ \E r \in letterRequests :
       /\ r.status \in {"pending", "processing"}
       /\ procs' = [procs EXCEPT ![p] =
            [IdleProc EXCEPT !.op = "admin", !.pc = "list", !.snap = {r}]]
  /\ UNCHANGED <<now, user, userVer, stripe, letterRequests, acct0>>

\* handleScanUpload(request), offered for request.pdfScan and not scanned:
\* updateDoc(letterRequests/id, {status: "processing", ...})
handleScanUpload(p) ==
  /\ At(p, "admin", "list")
  /\ RequestOf(p).pdfScan /\ ~RequestOf(p).scanned
  /\ letterRequests' = { IF r.id = RequestOf(p).id
                         THEN [r EXCEPT !.status = "processing"] ELSE r :
                         r \in letterRequests }
  /\ Goto(p, "scan")
  /\ UNCHANGED <<now, user, userVer, stripe, acct0>>

\* handleScanUpload: after the upload, updateDoc(letterRequests/id,
\* {"adminActions.scanned": true}), and updatedRequest
handleScanUpload_scanned(p) ==
  /\ At(p, "admin", "scan")
  /\ letterRequests' = { IF r.id = RequestOf(p).id
                         THEN [r EXCEPT !.scanned = TRUE] ELSE r :
                         r \in letterRequests }
  /\ procs' = [procs EXCEPT ![p].pc = "complete",
                            ![p].snap = {[RequestOf(p) EXCEPT !.scanned = TRUE]}]
  /\ UNCHANGED <<now, user, userVer, stripe, acct0>>

\* handleMarkDelivered(request), offered for request.delivery and not
\* delivered: a request that the list holds as pending is set to processing
handleMarkDelivered(p) ==
  /\ At(p, "admin", "list")
  /\ RequestOf(p).delivery /\ ~RequestOf(p).delivered
  /\ letterRequests' =
       IF RequestOf(p).status = "pending"
       THEN { IF r.id = RequestOf(p).id
              THEN [r EXCEPT !.status = "processing"] ELSE r : r \in letterRequests }
       ELSE letterRequests
  /\ Goto(p, "deliver")
  /\ UNCHANGED <<now, user, userVer, stripe, acct0>>

\* handleMarkDelivered: updateDoc(letterRequests/id,
\* {"adminActions.delivered": true}), and updatedRequest
handleMarkDelivered_delivered(p) ==
  /\ At(p, "admin", "deliver")
  /\ letterRequests' = { IF r.id = RequestOf(p).id
                         THEN [r EXCEPT !.delivered = TRUE] ELSE r :
                         r \in letterRequests }
  /\ procs' = [procs EXCEPT ![p].pc = "complete",
                            ![p].snap = {[RequestOf(p) EXCEPT !.delivered = TRUE]}]
  /\ UNCHANGED <<now, user, userVer, stripe, acct0>>

\* checkAndCompleteRequest(updatedRequest, db): both services are done as far
\* as updatedRequest tells, and the request is set to completed
checkAndCompleteRequest(p) ==
  /\ At(p, "admin", "complete")
  /\ LET request == RequestOf(p)
         scanCompleted == ~request.pdfScan \/ request.scanned
         deliveryCompleted == ~request.delivery \/ request.delivered
     IN IF scanCompleted /\ deliveryCompleted
        THEN /\ letterRequests' = { IF r.id = request.id
                                    THEN [r EXCEPT !.status = "completed"] ELSE r :
                                    r \in letterRequests }
             /\ Finish(p, "true")
        ELSE /\ Finish(p, "false")
             /\ UNCHANGED letterRequests
  /\ UNCHANGED <<now, user, userVer, stripe, acct0>>

\* one request of the user, as dashboard/page.tsx creates it
InitAdmin ==
  /\ now = 0 /\ userVer = 0
  /\ user = NewUser(0) /\ acct0 = user
  /\ InitStripe({"price_monthly"})
  /\ procs = [p \in Procs |-> IdleProc]
  /\ \E pdfScan, delivery \in BOOLEAN :
       /\ pdfScan \/ delivery
       /\ letterRequests =
            {[id |-> 0, status |-> "pending",
              creditsDeducted |-> (IF pdfScan THEN 1 ELSE 0) + (IF delivery THEN 1 ELSE 0),
              pdfScan |-> pdfScan, delivery |-> delivery,
              scanned |-> FALSE, delivered |-> FALSE]}

NextAdmin ==
  \/ \E p \in Procs : loadPendingRequests(p)
  \/ \E p \in Procs : handleScanUpload(p)
  \/ \E p \in Procs : handleScanUpload_scanned(p)
  \/ \E p \in Procs : handleMarkDelivered(p)
  \/ \E p \in Procs : handleMarkDelivered_delivered(p)
  \/ \E p \in Procs : checkAndCompleteRequest(p)

SpecAdmin == InitAdmin /\ [][NextAdmin]_vars

\* C29: a request whose status is completed keeps that status in every step.
C29_CompletedIsTerminal ==
  [][ \A r \in letterRequests :
        r.status = "completed" =>
          \A r2 \in letterRequests' :
            r2.id = r.id => r2.status = "completed" ]_vars

\* C30: when every delivery of the checkout of one subscription has been
\* handled and at least one was handled to its end, the account has exactly
\* durationMonths scheduled distributions.
C30_ScheduleIdempotent ==
  ( /\ Quiet
    /\ \A p \in Started : procs[p].op = "p006_checkout"
    /\ \E p \in Started : procs[p].res = "ok" )
  => Cardinality(user.scheduledCredits) =
       p006_getPlanConfig(stripe.priceId).durationMonths

-----------------------------------------------------------------------------
(* app/api/cron/monthly-credits/route.ts: the sweep run after run *)

SweepTicks == {12, 13}

InitSweep ==
  /\ InitStripe({"price_monthly"})
  /\ user \in {NewUser(5), PremiumUser(stripe.priceId, FALSE)}
  /\ InitStore

\* a run starts when the run before it has returned
NextSweep ==
  \/ \E d \in SweepTicks : Tick(d)
  \/ \E p \in Procs : Quiet /\ cronMonthlyCredits(p)
  \/ \E p \in Procs : cronMonthlyCredits_write(p)

SpecSweep == InitSweep /\ [][NextSweep]_vars

\* C31: over runs of the sweep one after the other, a run that finds
\* lastMonthlyGrant less than 25 days old skips the user and leaves the
\* document unchanged; a run that grants adds 5 credits to a free user and 25
\* to a premium user, and is at least 25 days after every earlier grant.
C31_SweepOncePerWindow ==
  [][ \A p \in Procs :
        /\ ( /\ Idle(p) /\ procs'[p].op = "cronMonthly"
             /\ user.lastMonthlyGrant # NullDate
             /\ now - user.lastMonthlyGrant < 25 )
           => /\ user' = user
              /\ procs'[p].pc = "done" /\ procs'[p].delta = 0
        /\ ( At(p, "cronMonthly", "cm_write") /\ procs'[p].pc = "done" )
           => /\ user'.credits = user.credits +
                   (IF user.planType = "premium" THEN 25 ELSE 5)
              /\ procs'[p].delta = user'.credits - user.credits
              /\ \A q \in Procs \ {p} :
                   (Done(q) /\ procs[q].delta > 0)
                     => procs'[p].at - procs[q].at >= 25 ]_vars

\* C31: a run has granted on day 0, a run 24 days later has skipped the user
\* and a run 25 days after the first has granted again
C31_Witness ==
  \E p, q, r \in Procs :
    /\ Done(p) /\ procs[p].delta > 0
    /\ Done(q) /\ procs[q].res = "skipped"
    /\ Done(r) /\ procs[r].delta > 0
    /\ procs[r].at - procs[p].at = 25
    /\ user.credits = acct0.credits + procs[p].delta + procs[r].delta

-----------------------------------------------------------------------------
(* app/api/cron/allocate-credits/route.ts: the authorization of GET and POST *)

\* process.env.CRON_SECRET and process.env.ADMIN_SECRET, two secrets of the
\* deployment
CRON_SECRET == "cron_secret"
ADMIN_SECRET == "admin_secret"

Bearer(secret) == <<"Bearer", secret>>

\* the authorization header of a request
AuthHeaders == {Bearer(CRON_SECRET), Bearer(ADMIN_SECRET), Bearer("guess")}

Unauthorized(p) ==
  /\ CanStart(p)
  /\ procs' = [procs EXCEPT ![p] =
       [IdleProc EXCEPT !.op = "cronAllocate", !.pc = "done", !.res = "401"]]
  /\ UNCHANGED <<now, user, userVer, stripe, letterRequests, acct0>>

\* GET(request): the header is compared with Bearer CRON_SECRET, then the
\* allocation runs
cronAllocateCredits_GET(p, authHeader) ==
  IF authHeader # Bearer(CRON_SECRET)
  THEN Unauthorized(p)
  ELSE cronAllocateCredits(p)

\* POST(request): the header is compared with Bearer ADMIN_SECRET, then
\* return GET(request) with the same request
cronAllocateCredits_POST(p, authHeader) ==
  IF authHeader # Bearer(ADMIN_SECRET)
  THEN Unauthorized(p)
  ELSE cronAllocateCredits_GET(p, authHeader)

NextManual ==
  \/ \E d \in GrantTicks : Tick(d)
  \/ \E p \in Procs, authHeader \in AuthHeaders : cronAllocateCredits_GET(p, authHeader)
  \/ \E p \in Procs, authHeader \in AuthHeaders : cronAllocateCredits_POST(p, authHeader)
  \/ \E p \in Procs : cronAllocateCredits_downgrade(p)
  \/ \E p \in Procs : cronAllocateCredits_write(p)

SpecManual == InitGrant /\ [][NextManual]_vars

\* C32: a POST that carries Bearer ADMIN_SECRET runs the allocation of GET: its
\* first step is the step of the authorized GET.
C32_ManualTriggerRuns ==
  [][ \A p \in Procs :
        cronAllocateCredits_POST(p, Bearer(ADMIN_SECRET))
          => cronAllocateCredits(p) ]_vars

\* C33: in performActionWithCredits the action is invoked only in the step in
\* which debitCredits has taken creditCost from the balance, and a call that
\* ends on insufficient credits or on a failed debit has left the document
\* unchanged in that step and has never invoked the action.
C33_DebitBeforeAction ==
  [][ \A p \in Procs :
        /\ ( procs'[p].pc \in {"action", "refund"} /\ procs[p].pc # procs'[p].pc )
           => \/ /\ At(p, "perform", "dc_update")
                 /\ procs'[p].pc = "action"
                 /\ user'.credits = user.credits - procs[p].amount
                 /\ procs'[p].delta = 0 - procs[p].amount
              \/ /\ At(p, "perform", "action")
                 /\ procs[p].delta = 0 - procs[p].amount
        /\ ( /\ procs[p].op = "perform" /\ ~Done(p)
             /\ procs'[p].res \in {"insufficient", "debit_failed"} )
           => /\ user' = user
              /\ procs[p].pc \in {"has", "dc_get", "dc_update"}
              /\ procs'[p].pc = "done" /\ procs'[p].delta = 0 ]_vars

\* C33: one call is at its action with creditCost taken from the balance, one
\* has ended on insufficient credits and one on a failed debit
C33_Witness ==
  \E p, q, r \in Procs :
    /\ At(p, "perform", "action")
    /\ Done(q) /\ procs[q].res = "insufficient"
    /\ Done(r) /\ procs[r].res = "debit_failed"
    /\ user.credits = acct0.credits - procs[p].amount

\* C34: the step in which handleCheckoutCompleted commits a subscription
\* checkout stores a nextCreditDate 30 days after the subscriptionStart it
\* stores, whether or not a premium subscription is extended.
C34_NextCreditAfterStoredStart ==
  [][ \A p \in Procs :
        ( /\ At(p, "p005_checkout", "tx_commit")
          /\ procs'[p].pc = "done" /\ procs'[p].res = "ok" )
        => user'.nextCreditDate = AddDays(user'.subscriptionStart, 30) ]_vars

-----------------------------------------------------------------------------
(* app/api/check-credits/route.ts: logins of one premium account *)

LoginTicks == {15, 30}

\* the account as handleCheckoutCompleted of the webhook with the credit
\* history has left it on day 0: nextCreditDate is day 30
InitLogin ==
  /\ InitStripe({"price_monthly"})
  /\ user = p005_checkoutUpdate(NewUser(0), 0, stripe.priceId)
  /\ InitStore

NextLogin ==
  \/ \E d \in LoginTicks : Tick(d)
  \/ \E p \in Procs : checkCredits(p)
  \/ \E p \in Procs : checkCredits_get(p)
  \/ \E p \in Procs : checkCredits_commit(p)

SpecLogin == InitLogin /\ [][NextLogin]_vars

\* C35: when two calls of check-credits, and no other, have run on the same
\* day for a premium account whose nextCreditDate has passed, in whatever
\* interleaving, both have returned, exactly one has granted 20 credits, the
\* balance is 20 higher and creditHistory has exactly one new entry.
C35_ConcurrentLoginsOneGrant ==
  ( /\ Quiet /\ Started = {1, 2}
    /\ procs[1].at = procs[2].at
    /\ procs[1].at >= acct0.nextCreditDate )
  => /\ procs[1].res = "ok" /\ procs[2].res = "ok"
     /\ {procs[1].delta, procs[2].delta} = {0, MONTHLY_CREDITS}
     /\ user.credits = acct0.credits + MONTHLY_CREDITS
     /\ Len(user.creditHistory) = Len(acct0.creditHistory) + 1

\* C35: the two calls have both read the account before either has committed,
\* the second to commit has been sent back to read again, and both are done
C35_Witness ==
  /\ Quiet /\ Started = {1, 2}
  /\ procs[1].at = procs[2].at
  /\ procs[1].at >= acct0.nextCreditDate
  /\ \E p \in Started : procs[p].att > 0
  /\ user.credits = acct0.credits + MONTHLY_CREDITS

-----------------------------------------------------------------------------
(* app/api/buy-credits/route.ts and the payment of its checkout session *)

\* CREDIT_PACKAGES: credits and price in EUR
CREDIT_PACKAGES ==
  { [credits |-> 5, price |-> 1], [credits |-> 25, price |-> 5],
    [credits |-> 50, price |-> 9], [credits |-> 100, price |-> 17] }

\* the bodies { credits, price } a client posts: the packages and one that is
\* none of them
PostedPackages == CREDIT_PACKAGES \cup { [credits |-> 100, price |-> 1] }

\* POST of buy-credits: the package is validated, the Stripe customer is
\* stored with setDoc merge when the user has none, and the checkout session
\* is created with unit_amount price * 100 and metadata {credits, type}
buyCredits_POST(p, pkg, hasCustomer) ==
  /\ CanStart(p)
  /\ IF pkg \notin CREDIT_PACKAGES
     THEN /\ procs' = [procs EXCEPT ![p] =
               [IdleProc EXCEPT !.op = "buyCredits", !.pc = "done", !.res = "400"]]
          /\ UNCHANGED <<user, userVer>>
     ELSE /\ procs' = [procs EXCEPT ![p] =
               [IdleProc EXCEPT !.op = "buyCredits", !.pc = "session",
                  !.amount = pkg.price * 100,
                  !.snap = {[credits |-> pkg.credits, type |-> "credits"]}]]
          /\ IF hasCustomer THEN UNCHANGED <<user, userVer>>
             ELSE UpdateOrMerge(user)
  /\ UNCHANGED <<now, stripe, letterRequests, acct0>>

\* the session is paid: checkout.session.completed arrives at the webhook with
\* the session's amount_total and metadata
DeliverSessionCompleted(p) ==
  /\ At(p, "buyCredits", "session")
  /\ procs' = [procs EXCEPT ![p] =
       [procs[p] EXCEPT !.op = "checkout", !.pc = "post", !.status = "payment",
                        !.sid = "cs_pay_" \o ToString(procs[p].amount)]]
  /\ UNCHANGED <<now, user, userVer, stripe, letterRequests, acct0>>

NextPurchase ==
  \/ \E p \in Procs, pkg \in PostedPackages, hasCustomer \in BOOLEAN :
        buyCredits_POST(p, pkg, hasCustomer)
  \/ \E p \in Procs : DeliverSessionCompleted(p)
  \/ \E p \in Procs : POST_checkout(p)
  \/ \E p \in Procs : handleCreditsPurchase_read(p)
  \/ \E p \in Procs : handleCreditsPurchase_write(p)

SpecPurchase == InitRoute /\ [][NextPurchase]_vars

\* C36: when the payment of a session that buy-credits created for a credit
\* package has been handled by the webhook, the credits handleCreditsPurchase
\* has added are the credits of the package.
C36_PackageCreditsAdded ==
  \A p \in Procs :
    ( /\ procs[p].op = "checkout" /\ procs[p].status = "payment"
      /\ Done(p) /\ procs[p].res = "ok" )
    => \A metadata \in procs[p].snap : procs[p].delta = metadata.credits

-----------------------------------------------------------------------------
(* The webhook with scheduled distributions: one purchase and its invoices *)

InitDistribute ==
  /\ user = NewUser(0)
  /\ InitStripe({"price_monthly", "price_semiannual"})
  /\ InitStore

\* the checkout of the purchase is the first event, the invoices follow
NextDistribute ==
  \/ DaysPass(31)
  \/ p006_DeliverCheckout(1)
  \/ \E p \in Procs : p006_DeliverInvoice(p)
  \/ \E p \in Procs : p006_handleSubscriptionPurchase_retrieve(p)
  \/ \E p \in Procs : p006_handleSubscriptionPurchase_getDoc(p)
  \/ \E p \in Procs : p006_handleSubscriptionPurchase_meta(p)
  \/ \E p \in Procs : getUserIdFromSubscription_customer(p)
  \/ \E p \in Procs : getUserIdFromSubscription_query(p)
  \/ \E p \in Procs : getUserIdFromSubscription_meta(p)
  \/ \E p \in Procs : updateUserDocument_get(p)
  \/ \E p \in Procs, rejects \in BOOLEAN : updateUserDocument_commit(p, rejects)
  \/ \E p \in Procs, rejects \in BOOLEAN : updateUserDocument_setDoc(p, rejects)
  \/ \E p \in Procs, rejects \in BOOLEAN : scheduleMonthlyCredits(p, rejects)
  \/ \E p \in Procs : processPendingDistributions_query(p)
  \/ \E p \in Procs : processPendingDistributions_getDoc(p)
  \/ \E p \in Procs, rejects \in BOOLEAN : processPendingDistributions_commit(p, rejects)

SpecDistribute == InitDistribute /\ [][NextDistribute]_vars

\* C37: whenever no handler is in flight and the account has a creditSchedule,
\* remainingMonths is the plan's durationMonths less the number of processed
\* scheduledCredits documents and is not negative, and the balance holds each
\* processed distribution once: it is the starting balance plus the free
\* credits of the checkouts handled plus the credits of the processed
\* documents, or less.
C37_RemainingMonthsMatchProcessed ==
  LET processed == { d \in user.scheduledCredits : d.status = "processed" }
      handled == { p \in Started : procs[p].op = "p006_checkout" }
  IN ( Quiet /\ user.creditSchedule # NoSchedule )
     => /\ user.creditSchedule.remainingMonths =
             p006_getPlanConfig(stripe.priceId).durationMonths - Cardinality(processed)
        /\ user.creditSchedule.remainingMonths >= 0
        /\ user.credits <= acct0.credits
                           + Cardinality(handled) * p006_getPlanConfig(stripe.priceId).freeCredits
                           + SumScheduled(processed)

-----------------------------------------------------------------------------
(* The admin page: every handler that was started runs on, and an admin who
   is offered a button presses it *)

SpecAdminFair == SpecAdmin /\ WF_vars(NextAdmin)

\* every service the request asks for has been performed
Performed(r) == (r.pdfScan => r.scanned) /\ (r.delivery => r.delivered)

\* C38: once every service requested in a letterRequest has been performed,
\* the status of the request eventually becomes completed.
C38_PerformedLeadsToCompleted ==
  (\A r \in letterRequests : Performed(r))
    ~> (\A r \in letterRequests : r.status = "completed")

\* C39: in every state of grantMonthlyCredits and deductCredits calls, in any
\* interleaving, the credits of the account are its initial credits plus the
\* sum of the credits of its creditHistory entries.
C39_BalanceMatchesHistory ==
  user.exists => user.credits = acct0.credits + SumCredits(user.creditHistory)

\* C39: a grant and a deduction have both returned true on the same document
\* read, and the history holds the entry of only one of them
C39_Witness ==
  \E p, q \in Procs :
    /\ Done(p) /\ procs[p].op = "grantMonthly" /\ procs[p].res = "ok"
    /\ Done(q) /\ procs[q].op = "deduct" /\ procs[q].res = "ok"
    /\ procs[p].hist = procs[q].hist
    /\ Len(user.creditHistory) = Len(procs[p].hist) + 1

-----------------------------------------------------------------------------
(* app/dashboard/page.tsx: the requests for one letter *)

\* canMakeRequest(letter): the page's userRequests holds no request for the
\* letter, or the one it finds is completed (userRequests is ordered by
\* requestedAt desc; no request gets completed here, so the one found is
\* completed only if all are)
canMakeRequest(userRequests) ==
  \A request \in userRequests : request.status = "completed"

\* the Request Service button and handleSubmitRequest: the button is shown by
\* canMakeRequest over userRequests, which the page fetches once, when it
\* loads (before the first request, or now), and never again
handleSubmitRequest(p, pdfScan, delivery) ==
  /\ \E userRequests \in {{}, letterRequests} : canMakeRequest(userRequests)
  /\ handleMakeRequest(p, pdfScan, delivery)

NextRequests ==
  \/ \E p \in Procs, pdfScan, delivery \in BOOLEAN : handleSubmitRequest(p, pdfScan, delivery)
  \/ \E p \in Procs : handleMakeRequest_get(p)
  \/ \E p \in Procs : handleMakeRequest_commit(p)

SpecRequests == InitDashboard /\ [][NextRequests]_vars

\* C40: the letter has at most one letterRequest that is not completed, and
\* the user has been charged for at most one open request.
C40_OneOpenRequestPerLetter ==
  LET open == { r \in letterRequests : r.status # "completed" }
  IN /\ Cardinality(open) <= 1
     /\ \A r \in open : acct0.credits - user.credits <= r.creditsDeducted

=============================================================================
